---- MODULE Spec2Model ----
(***************************************************************************)
(* A model of glue-shell (crew): the process launcher Command::run with    *)
(* its pipe / pty pumps, the raw-mode terminal helpers (readKey, toRows),  *)
(* the interactive editor of crew-repl and the command validator Vm.       *)
(*                                                                         *)
(* Each component has its own specification over its own variables; the    *)
(* variables of the other components are held at their initial value.      *)
(*   SpecRun    Command::run, one parent process and one forked child      *)
(*   SpecKey    readKey over a finite input byte stream                    *)
(*   SpecWrap   toRows over bounded content strings                        *)
(*   SpecVm     Vm::addParam / addCommand / parseTokens / operator<<       *)
(*   SpecRepl   rawRepl: enterRawMode, the Editor key loop, process exit   *)
(***************************************************************************)
EXTENDS Integers, Sequences, FiniteSets, TLC

(***************************************************************************)
(* Bounds of the model.                                                    *)
(***************************************************************************)
\* number of bytes the child writes in one run
MaxWrites == 3
\* capacity of an OS pipe / pty buffer, in bytes
PipeCap == 2
\* size of the pump's read buffer (the code's char buffer[4096], scaled)
BufSize == 1
\* number of read() calls that fail with EINTR in one run
MaxEintr == 1
\* length of the content strings given to toRows
MaxContent == 4
\* largest width given to toRows
MaxWidth == 6
\* number of VmParam objects allocated by addParam in one run
MaxAllocs == 2
\* number of tokens in one parseTokens call
MaxTokens == 3
\* largest window: columns and rows
MaxCols == 3
MaxRows == 3
\* length of the editor's input buffer, and number of scrollback entries
MaxBuf == 2
MaxEntries == 2
MaxLine == 4
NumWrapped == 2
MaxQueryWidth == 2
MaxQueries == 3
MaxMakeArgs == 3

(***************************************************************************)
(* Generic helpers.                                                        *)
(***************************************************************************)
Min(a, b) == IF a <= b THEN a ELSE b
Max(a, b) == IF a >= b THEN a ELSE b
Take(s, n) == SubSeq(s, 1, Min(n, Len(s)))
Drop(s, n) == SubSeq(s, Min(n, Len(s)) + 1, Len(s))

VARIABLES
    \* ---- Command (src/unnamed/part_006: the Command members) ----
    mode,          \* RunMode passed to run: "Block", "BlockPty", "ExecPty"
    m_dryRun,      \* Command::m_dryRun
    m_verbose,     \* Command::m_verbose
    m_onError,     \* Command::m_onError: "Return" or "Fatal"
    m_cd,          \* Command::m_cd.has_value()
    m_envOverride, \* Command::m_envOverride.size()
    \* ---- the calling (parent) process ----
    pc,            \* position of the parent in run / runPipe / runPty / execPty
    result,        \* the local `result` of run (NoInt until childExit returns)
    ret,           \* value run returned (NoInt while it has not returned)
    exitStatus,    \* status the parent process terminated with (NoInt if alive)
    pfds,          \* descriptors opened by run and still open in the parent
    cerr,          \* the parent's diagnostic stream std::cerr: sequence of lines
    outStream,     \* bytes written to the out sink (outStream())
    errStream,     \* bytes written to the err sink (errStream())
    outFlushed,    \* number of flush() calls on the out sink
    errFlushed,    \* number of flush() calls on the err sink
    errReads,      \* number of read() calls issued on errPipe.exit
    eintrs,        \* number of read() calls that failed with EINTR
    \* ---- kernel objects ----
    outPipe,       \* bytes buffered in the stdout pipe
    errPipe,       \* bytes buffered in the stderr pipe
    pty,           \* bytes buffered on the pty, readable from amaster
    \* ---- the child process ----
    child,         \* "none", "dup2out", "dup2err", "closeExits", "exec",
                   \* "running", "blocked", "zombie", "reaped"
    childPending,  \* the write the blocked child is suspended in
    childStatus,   \* wait status once the child has terminated
    cstdout,       \* what the child's fd 1 refers to
    cstderr,       \* what the child's fd 2 refers to
    sOut,          \* history: bytes the child wrote to its standard output
    sErr,          \* history: bytes the child wrote to its standard error
    sAll,          \* history: bytes the child wrote, in the order written
    \* ---- readKey (src/src/lib/terminal/terminal.cpp) ----
    kpc,           \* position in readKey: "first", "seq0", "seq1", "seq2", "done", "died"
    charSigned,    \* whether plain char is a signed type in this build
    c,             \* the local `c` of readKey, as the byte read (0..255)
    seq,           \* the bytes stored into the local `seq` so far
    key,           \* the value readKey returned ("none" while it has not)
    \* ---- toRows (src/src/lib/terminal/terminal.cpp) ----
    wpc,           \* "call" before toRows is applied, "done" after
    content,       \* the argument `content`: a sequence of character codes
    width,         \* the argument `width`
    rows,          \* the rows returned
    \* ---- Vm (src/src/lib/include/interpreter.hpp) ----
    m_params,      \* Vm::m_params: parameter id -> address of its VmParam
    m_commands,    \* Vm::m_commands: command id -> m_posParams of its VmCommand
    vmHeap,        \* the VmParam records allocated so far, by address
    vmFreed,       \* addresses of the VmParam records already destroyed
    vmStatus,      \* "running", or how the process ended
    vmCerr,        \* diagnostics written by fatal()
    lastCall,      \* the last Vm operation called, with its arguments
    parseResult,   \* the ParseResult of the last parseTokens ("none": no value)
    printed,       \* per argument index, what operator<< computed for it
    \* ---- crew-repl: raw mode and the Editor (src/src/app/crew-repl.cpp) ----
    rpc,           \* position of the process in rawRepl
    termios,       \* line-discipline settings of the terminal: "orig" or "raw"
    atexitFns,     \* functions registered with atexit
    procExit,      \* how the process ended ("none" while it runs)
    winSize,       \* Editor::winSize
    cursor,        \* Editor::cursor
    currentCommand,\* Editor::currentCommand
    entries,       \* Editor::outputs.entries: the content of each entry
    pressed,       \* the local `c` of the last processKeypress: the key read
    ttyLog,        \* what the ending process did to the terminal, in order
    drawn,         \* per entry visited by the last Outputs::render, its rows drawn
    screen,        \* the lines the last refreshScreen wrote to the terminal
    \* ---- tokenize (src/unnamed/part_005, crew-repl.cpp 388-402) ----
    tpc,           \* position of the caller of tokenize
    line,          \* the argument `in`: the line read from standard input
    tokenVec,       \* the vector `tokens` that tokenize returned
    \* ---- RenderableWrappedText (src/src/app/crew-repl.cpp) ----
    qpc,           \* "query" while rows() may be called on the entries
    m_content,     \* m_content of each RenderableWrappedText
    m_cols,        \* m_cols of each entry: an optional width
    m_rendered,    \* m_rendered of each entry
    toRowsCalls,   \* number of toRows calls made for each entry
    rowsLog,       \* the calls of rows() so far: entry, cols, value returned
    \* ---- Build (src/unnamed/part_008) ----
    bpc,           \* position in Build::make: "make", "call", "run", "unreachable", "exited"
    dryRun,        \* Build::dryRun
    verbose,       \* Build::verbose
    dirExists,     \* is_directory(dir)
    makeArgs,      \* number of arguments in [begin, end)
    m_args         \* Command::m_args.size() of the command make builds

cfgVars == <<mode, m_dryRun, m_verbose, m_onError, m_cd, m_envOverride>>
parentVars == <<pc, result, ret, exitStatus, pfds, cerr, outStream, errStream,
                outFlushed, errFlushed, errReads, eintrs>>
kernelVars == <<outPipe, errPipe, pty>>
childVars == <<child, childPending, childStatus, cstdout, cstderr, sOut, sErr, sAll>>
runVars == <<cfgVars, parentVars, kernelVars, childVars>>
keyVars == <<kpc, charSigned, c, seq, key>>
wrapVars == <<wpc, content, width, rows>>
vmVars == <<m_params, m_commands, vmHeap, vmFreed, vmStatus, vmCerr, lastCall,
            parseResult, printed>>
replVars == <<rpc, termios, atexitFns, procExit, winSize, cursor, currentCommand,
              entries, pressed, ttyLog, drawn, screen>>
tokVars == <<tpc, line, tokenVec>>
cacheVars == <<qpc, m_content, m_cols, m_rendered, toRowsCalls, rowsLog>>
makeVars == <<bpc, dryRun, verbose, dirExists, makeArgs, m_args>>
auxVars == <<tokVars, cacheVars, makeVars>>
vars == <<runVars, keyVars, wrapVars, vmVars, replVars, auxVars>>
notRunVars == <<keyVars, wrapVars, vmVars, replVars, auxVars>>
notKeyVars == <<runVars, wrapVars, vmVars, replVars, auxVars>>
notWrapVars == <<runVars, keyVars, vmVars, replVars, auxVars>>
notVmVars == <<runVars, keyVars, wrapVars, replVars, auxVars>>
notReplVars == <<runVars, keyVars, wrapVars, vmVars, auxVars>>
notTokVars == <<runVars, keyVars, wrapVars, vmVars, replVars, cacheVars, makeVars>>
notCacheVars == <<runVars, keyVars, wrapVars, vmVars, replVars, tokVars, makeVars>>
notMakeVars == <<keyVars, wrapVars, vmVars, replVars, tokVars, cacheVars>>

(***************************************************************************)
(* ProcessLauncher: Command::run                                           *)
(***************************************************************************)
RunModes == {"Block", "BlockPty", "ExecPty"}
OnErrors == {"Return", "Fatal"}
\* bytes a child program writes: 'a' and '\n'
ChildBytes == {97, 10}
\* exit codes a child program ends with
ExitCodes == {0, 1, 3}
\* the byte standing for the one-line diagnostic fatal() writes
DiagByte == 33

\* stands for "no value" where an exit status or return value is held
NoInt == -1

NoStatus == [kind |-> "none", code |-> 0]
Exited(code) == [kind |-> "exited", code |-> code]
Signaled == [kind |-> "signaled", code |-> 0]

Line(prefix, body) == [prefix |-> prefix, body |-> body]

\* mutant of describe: the prefix is chosen by the verbose flag
describe_byVerbose ==
    IF m_verbose \/ m_dryRun
    THEN <<Line(IF m_verbose THEN "LOG: " ELSE "DRY: ", <<"toString">>)>>
         \o (IF m_cd THEN <<Line("\t- ", <<"executing from directory">>)>> ELSE <<>>)
         \o (IF m_envOverride # 0 THEN <<Line("\t- ", <<"overriding environment variables">>)>>
             ELSE <<>>)
    ELSE <<>>

\* Command::run lines 85-96: the description written to std::cerr
describe ==
    IF m_verbose \/ m_dryRun
    THEN <<Line(IF m_dryRun THEN "DRY: " ELSE "LOG: ", <<"toString">>)>>
         \o (IF m_cd THEN <<Line("\t- ", <<"executing from directory">>)>> ELSE <<>>)
         \o (IF m_envOverride # 0 THEN <<Line("\t- ", <<"overriding environment variables">>)>>
             ELSE <<>>)
    ELSE <<>>

\* Command::run lines 103-113: first step of each run mode
dispatch(m) ==
    CASE m = "Block" -> "openOutPipe"
      [] m = "BlockPty" -> "forkpty"
      [] m = "ExecPty" -> "execPty"

\* fmt::format: the format string is a sequence of literal pieces and
\* replacement fields "{}"; each field is replaced by the next argument, and
\* arguments that no field refers to do not appear in the text
RECURSIVE format(_, _)
format(fmt, args) ==
    IF fmt = <<>> THEN <<>>
    ELSE IF Head(fmt) = "{}" /\ args # <<>>
    THEN <<Head(args)>> \o format(Tail(fmt), Tail(args))
    ELSE <<Head(fmt)>> \o format(Tail(fmt), args)

\* crew::fatal in the calling process: one line on std::cerr, then exit(1)
fatal(fmt, args) ==
    /\ cerr' = Append(cerr, Line("", format(fmt, args)))
    /\ pc' = "exited"
    /\ exitStatus' = 1

\* Command::run lines 82-113
RunEnter ==
    /\ pc = "run"
    /\ cerr' = cerr \o describe
    /\ IF m_dryRun
       THEN pc' = "returned" /\ ret' = 0
       ELSE pc' = dispatch(mode) /\ UNCHANGED ret
    /\ UNCHANGED <<notRunVars, cfgVars, result, exitStatus, pfds, outStream, errStream,
                   outFlushed, errFlushed, errReads, eintrs, kernelVars, childVars>>

\* FdPair::openPipe for outPipe (runPipe line 129)
OpenOutPipe ==
    /\ pc = "openOutPipe"
    /\ \/ /\ pfds' = pfds \cup {"outExit", "outEntrance"}
          /\ pc' = "openErrPipe"
          /\ UNCHANGED <<cerr, exitStatus>>
       \/ /\ fatal(<<"failed to open pipe">>, <<>>)
          /\ UNCHANGED pfds
    /\ UNCHANGED <<notRunVars, cfgVars, result, ret, outStream, errStream, outFlushed,
                   errFlushed, errReads, eintrs, kernelVars, childVars>>

\* FdPair::openPipe for errPipe (runPipe line 130)
OpenErrPipe ==
    /\ pc = "openErrPipe"
    /\ \/ /\ pfds' = pfds \cup {"errExit", "errEntrance"}
          /\ pc' = "fork"
          /\ UNCHANGED <<cerr, exitStatus>>
       \/ /\ fatal(<<"failed to open pipe">>, <<>>)
          /\ UNCHANGED pfds
    /\ UNCHANGED <<notRunVars, cfgVars, result, ret, outStream, errStream, outFlushed,
                   errFlushed, errReads, eintrs, kernelVars, childVars>>

\* runPipe lines 132-136: fork()
Fork ==
    /\ pc = "fork"
    /\ \/ /\ pc' = "closeEntrances"
          /\ child' = "dup2out"
          /\ UNCHANGED <<cerr, exitStatus>>
       \/ /\ fatal(<<"fork() failed">>, <<>>)
          /\ UNCHANGED child
    /\ UNCHANGED <<notRunVars, cfgVars, result, ret, pfds, outStream, errStream, outFlushed,
                   errFlushed, errReads, eintrs, kernelVars, childPending,
                   childStatus, cstdout, cstderr, sOut, sErr, sAll>>

\* mutant of runPipeAfter: the child is waited for before its output is drained
runPipeAfter_waitFirst(step) ==
    CASE step = "closeEntrances" -> "wait"
      [] step = "pumpOut" -> "closeOutExit"
      [] step = "closeOutExit" -> "pumpErr"
      [] step = "pumpErr" -> "closeErrExit"
      [] step = "closeErrExit" -> "wait"

\* mutant of runPipeAfter: standard error is drained before standard output
runPipeAfter_errFirst(step) ==
    CASE step = "closeEntrances" -> "pumpErr"
      [] step = "pumpErr" -> "closeErrExit"
      [] step = "closeErrExit" -> "pumpOut"
      [] step = "pumpOut" -> "closeOutExit"
      [] step = "closeOutExit" -> "wait"

\* runPipe lines 148-158: the order of the parent's statements after fork
runPipeAfter(step) ==
    CASE step = "closeEntrances" -> "pumpOut"
      [] step = "pumpOut" -> "closeOutExit"
      [] step = "closeOutExit" -> "pumpErr"
      [] step = "pumpErr" -> "closeErrExit"
      [] step = "closeErrExit" -> "wait"

\* runPty lines 179-183: the order of the parent's statements after forkpty
runPtyAfter(step) ==
    CASE step = "forkpty" -> "pumpPty"
      [] step = "pumpPty" -> "closeMaster"
      [] step = "closeMaster" -> "wait"

\* runPipe lines 149-150: the parent closes both write ends
CloseEntrances ==
    /\ pc = "closeEntrances"
    /\ pfds' = pfds \ {"outEntrance", "errEntrance"}
    /\ pc' = runPipeAfter("closeEntrances")
    /\ UNCHANGED <<notRunVars, cfgVars, result, ret, exitStatus, cerr, outStream, errStream,
                   outFlushed, errFlushed, errReads, eintrs, kernelVars, childVars>>

\* A process that has been forked and has not terminated holds the descriptors
\* it inherited: the child never closes outPipe.entrance / errPipe.entrance,
\* and they stay open across execvp.
ChildAlive == child \notin {"none", "zombie", "reaped"}

\* whether some process still holds the write end of a pipe
WriteEndOpen(entrance) == entrance \in pfds \/ ChildAlive

\* mutant of pumpOutcome: an interrupted read ends the drain instead of being retried
pumpOutcome_noRetry(count, errno) ==
    IF count = -1
    THEN (IF errno = "EINTR" \/ errno = "EIO" THEN "break" ELSE "fatal")
    ELSE IF count = 0 THEN "break"
    ELSE "append"

\* pumpFdToStream lines 48-60: what the loop does with one read() result
pumpOutcome(count, errno) ==
    IF count = -1
    THEN (IF errno = "EINTR" THEN "continue"
          ELSE IF errno = "EIO" THEN "break"
          ELSE "fatal")
    ELSE IF count = 0 THEN "break"
    ELSE "append"

\* pumpFdToStream line 59: dest << string_view(buffer, count)
pumpAppend(dest, data) == dest \o data

\* mutant of ReadPipe: a read of an empty pipe returns 0 instead of blocking
ReadPipe_nonBlocking(buf, writerLeft) ==
    IF buf # <<>> THEN {[count |-> Min(Len(buf), BufSize), errno |-> "none"]}
    ELSE {[count |-> 0, errno |-> "none"]}

\* read(2) on the read end of a pipe: the results the kernel can give now.
\* Data if any is buffered (at most the buffer size), 0 at end of file (no
\* data and no writer left); with no data and a writer left the call blocks,
\* and a blocked call can be interrupted by a signal (EINTR).
ReadPipe(buf, writerLeft) ==
    IF buf # <<>> THEN {[count |-> Min(Len(buf), BufSize), errno |-> "none"]}
    ELSE IF ~writerLeft THEN {[count |-> 0, errno |-> "none"]}
    ELSE IF eintrs < MaxEintr THEN {[count |-> -1, errno |-> "EINTR"]}
    ELSE {}

\* mutant of ReadPty: the error is reported as soon as the slave side is closed
ReadPty_eioWithData(buf, slaveOpen) ==
    IF ~slaveOpen THEN {[count |-> -1, errno |-> "EIO"]}
    ELSE IF buf # <<>> THEN {[count |-> Min(Len(buf), BufSize), errno |-> "none"]}
    ELSE IF eintrs < MaxEintr THEN {[count |-> -1, errno |-> "EINTR"]}
    ELSE {}

\* read(2) on the pty master: as a pipe, but once the slave side is closed and
\* the buffer is empty the call fails with EIO
ReadPty(buf, slaveOpen) ==
    IF buf # <<>> THEN {[count |-> Min(Len(buf), BufSize), errno |-> "none"]}
    ELSE IF ~slaveOpen THEN {[count |-> -1, errno |-> "EIO"]}
    ELSE IF eintrs < MaxEintr THEN {[count |-> -1, errno |-> "EINTR"]}
    ELSE {}

\* pumpFdToStream(outPipe.exit, outStream()): one iteration of the loop, or
\* the flush after it (runPipe line 152)
pumpOut(r) ==
    /\ pc = "pumpOut"
    /\   LET o == pumpOutcome(r.count, r.errno) IN
         /\ outStream' = IF o = "append"
                         THEN pumpAppend(outStream, Take(outPipe, r.count))
                         ELSE outStream
         /\ outPipe' = IF r.count > 0 THEN Drop(outPipe, r.count) ELSE outPipe
         /\ eintrs' = IF r.errno = "EINTR" THEN eintrs + 1 ELSE eintrs
         /\ outFlushed' = IF o = "break" THEN outFlushed + 1 ELSE outFlushed
         /\ IF o = "fatal"
            THEN fatal(<<"read() failed: ">>, <<"strerror">>)
            ELSE /\ pc' = IF o = "break" THEN runPipeAfter("pumpOut") ELSE pc
                 /\ UNCHANGED <<cerr, exitStatus>>
    /\ UNCHANGED <<notRunVars, cfgVars, result, ret, pfds, errStream, errFlushed, errReads,
                   errPipe, pty, childVars>>

PumpOut == \E r \in ReadPipe(outPipe, WriteEndOpen("outEntrance")) : pumpOut(r)

\* read(2) failing with an error other than EINTR
ReadErrors == {[count |-> -1, errno |-> e] : e \in {"EIO", "EBADF"}}

\* the read of pumpFdToStream(outPipe.exit, ...) fails
PumpOutFails == \E r \in ReadErrors : pumpOut(r)

\* runPipe line 153: ::close(outPipe.exit)
CloseOutExit ==
    /\ pc = "closeOutExit"
    /\ pfds' = pfds \ {"outExit"}
    /\ pc' = runPipeAfter("closeOutExit")
    /\ UNCHANGED <<notRunVars, cfgVars, result, ret, exitStatus, cerr, outStream, errStream,
                   outFlushed, errFlushed, errReads, eintrs, kernelVars, childVars>>

\* pumpFdToStream(errPipe.exit, errStream()) (runPipe line 155)
pumpErr(r) ==
    /\ pc = "pumpErr"
    /\   LET o == pumpOutcome(r.count, r.errno) IN
         /\ errReads' = errReads + 1
         /\ errStream' = IF o = "append"
                         THEN pumpAppend(errStream, Take(errPipe, r.count))
                         ELSE errStream
         /\ errPipe' = IF r.count > 0 THEN Drop(errPipe, r.count) ELSE errPipe
         /\ eintrs' = IF r.errno = "EINTR" THEN eintrs + 1 ELSE eintrs
         /\ errFlushed' = IF o = "break" THEN errFlushed + 1 ELSE errFlushed
         /\ IF o = "fatal"
            THEN fatal(<<"read() failed: ">>, <<"strerror">>)
            ELSE /\ pc' = IF o = "break" THEN runPipeAfter("pumpErr") ELSE pc
                 /\ UNCHANGED <<cerr, exitStatus>>
    /\ UNCHANGED <<notRunVars, cfgVars, result, ret, pfds, outStream, outFlushed,
                   outPipe, pty, childVars>>

PumpErr == \E r \in ReadPipe(errPipe, WriteEndOpen("errEntrance")) : pumpErr(r)

\* the read of pumpFdToStream(errPipe.exit, ...) fails
PumpErrFails == \E r \in ReadErrors : pumpErr(r)

\* mutation of CloseErrExit: the read end of the stderr pipe is left open
CloseErrExit_leak ==
    /\ pc = "closeErrExit"
    /\ pc' = runPipeAfter("closeErrExit")
    /\ UNCHANGED <<notRunVars, cfgVars, result, ret, exitStatus, pfds, cerr, outStream,
                   errStream, outFlushed, errFlushed, errReads, eintrs, kernelVars, childVars>>

\* runPipe line 156: ::close(errPipe.exit)
CloseErrExit ==
    /\ pc = "closeErrExit"
    /\ pfds' = pfds \ {"errExit"}
    /\ pc' = runPipeAfter("closeErrExit")
    /\ UNCHANGED <<notRunVars, cfgVars, result, ret, exitStatus, cerr, outStream, errStream,
                   outFlushed, errFlushed, errReads, eintrs, kernelVars, childVars>>

\* WEXITSTATUS: the low eight bits of the status the child exited with
WEXITSTATUS(st) == st.code % 256

\* mutant of ChildExitWait: a child ended by a signal is given a code
ChildExitWait_decodesSignal ==
    /\ pc = "wait"
    /\ child = "zombie"
    /\ child' = "reaped"
    /\ result' = IF childStatus.kind # "exited" THEN 1 ELSE WEXITSTATUS(childStatus)
    /\ pc' = "policy"
    /\ UNCHANGED <<cerr, exitStatus>>
    /\ UNCHANGED <<notRunVars, cfgVars, ret, pfds, outStream, errStream, outFlushed,
                   errFlushed, errReads, eintrs, kernelVars, childPending,
                   childStatus, cstdout, cstderr, sOut, sErr, sAll>>

\* childExit lines 22-34: waitpid blocks until the child has terminated
ChildExitWait ==
    /\ pc = "wait"
    /\ child = "zombie"
    /\ child' = "reaped"
    /\ IF childStatus.kind # "exited"
       THEN fatal(<<"child failed to exit normally">>, <<>>) /\ UNCHANGED result
       ELSE /\ result' = WEXITSTATUS(childStatus)
            /\ pc' = "policy"
            /\ UNCHANGED <<cerr, exitStatus>>
    /\ UNCHANGED <<notRunVars, cfgVars, ret, pfds, outStream, errStream, outFlushed,
                   errFlushed, errReads, eintrs, kernelVars, childPending,
                   childStatus, cstdout, cstderr, sOut, sErr, sAll>>

\* mutant of RunPolicy: the two error policies are exchanged
RunPolicy_swapped ==
    /\ pc = "policy"
    /\ IF result # 0 /\ m_onError = "Return"
       THEN fatal(<<"command \"">>,
                  <<"toString", "\" failed with non-zero exit status: ",
                    ToString(result)>>)
            /\ UNCHANGED ret
       ELSE pc' = "returned" /\ ret' = result /\ UNCHANGED <<cerr, exitStatus>>
    /\ UNCHANGED <<notRunVars, cfgVars, result, pfds, outStream, errStream, outFlushed,
                   errFlushed, errReads, eintrs, kernelVars, childVars>>

\* Command::run lines 115-123: the error policy
RunPolicy ==
    /\ pc = "policy"
    /\ IF result # 0 /\ m_onError = "Fatal"
       THEN fatal(<<"command \"">>,
                  <<"toString", "\" failed with non-zero exit status: ",
                    ToString(result)>>)
            /\ UNCHANGED ret
       ELSE pc' = "returned" /\ ret' = result /\ UNCHANGED <<cerr, exitStatus>>
    /\ UNCHANGED <<notRunVars, cfgVars, result, pfds, outStream, errStream, outFlushed,
                   errFlushed, errReads, eintrs, kernelVars, childVars>>

\* runPty lines 168-177: forkpty()
ForkPty ==
    /\ pc = "forkpty"
    /\ \/ /\ pfds' = pfds \cup {"amaster"}
          /\ pc' = runPtyAfter("forkpty")
          /\ child' = "exec"
          /\ cstdout' = "pty"
          /\ cstderr' = "pty"
          /\ UNCHANGED <<cerr, exitStatus>>
       \/ /\ fatal(<<"fork() failed">>, <<>>)
          /\ UNCHANGED <<pfds, child, cstdout, cstderr>>
    /\ UNCHANGED <<notRunVars, cfgVars, result, ret, outStream, errStream, outFlushed,
                   errFlushed, errReads, eintrs, kernelVars, childPending,
                   childStatus, sOut, sErr, sAll>>

\* pumpFdToStream(amaster, outStream()) (runPty line 180)
PumpPty ==
    /\ pc = "pumpPty"
    /\ \E r \in ReadPty(pty, ChildAlive) :
         LET o == pumpOutcome(r.count, r.errno) IN
         /\ outStream' = IF o = "append"
                         THEN pumpAppend(outStream, Take(pty, r.count))
                         ELSE outStream
         /\ pty' = IF r.count > 0 THEN Drop(pty, r.count) ELSE pty
         /\ eintrs' = IF r.errno = "EINTR" THEN eintrs + 1 ELSE eintrs
         /\ outFlushed' = IF o = "break" THEN outFlushed + 1 ELSE outFlushed
         /\ IF o = "fatal"
            THEN fatal(<<"read() failed: ">>, <<"strerror">>)
            ELSE /\ pc' = IF o = "break" THEN runPtyAfter("pumpPty") ELSE pc
                 /\ UNCHANGED <<cerr, exitStatus>>
    /\ UNCHANGED <<notRunVars, cfgVars, result, ret, pfds, errStream, errFlushed, errReads,
                   outPipe, errPipe, childVars>>

\* runPty line 181: ::close(amaster)
CloseMaster ==
    /\ pc = "closeMaster"
    /\ pfds' = pfds \ {"amaster"}
    /\ pc' = runPtyAfter("closeMaster")
    /\ UNCHANGED <<notRunVars, cfgVars, result, ret, exitStatus, cerr, outStream, errStream,
                   outFlushed, errFlushed, errReads, eintrs, kernelVars, childVars>>

\* replaceProcessImage lines 196-218: what the call can end in.  "exec": the
\* image is replaced; "fatal": setenv or execvp failed and fatal() ran;
\* "throw": current_path(*m_cd) threw std::filesystem::filesystem_error, which
\* nothing catches (std::terminate, SIGABRT)
replaceProcessImage ==
    {"exec", "fatal"} \cup (IF m_cd THEN {"throw"} ELSE {})

\* execPty lines 186-194, in the calling process
ExecPty ==
    /\ pc = "execPty"
    /\ \E o \in replaceProcessImage :
         IF o = "exec" THEN pc' = "replaced" /\ UNCHANGED <<cerr, exitStatus>>
         ELSE IF o = "fatal" THEN fatal(<<"execvp failed: ">>, <<"strerror">>)
         ELSE pc' = "aborted" /\ exitStatus' = 134 /\ UNCHANGED cerr
    /\ UNCHANGED <<notRunVars, cfgVars, result, ret, pfds, outStream, errStream, outFlushed,
                   errFlushed, errReads, eintrs, kernelVars, childVars>>
(***************************************************************************)
(* The forked child.                                                       *)
(***************************************************************************)
\* runPipe line 138: dup2(outPipe.entrance, STDOUT_FILENO), retried on EINTR
ChildDup2Out ==
    /\ child = "dup2out"
    /\ cstdout' = "outPipe"
    /\ child' = "dup2err"
    /\ UNCHANGED <<notRunVars, cfgVars, parentVars, kernelVars, childPending, childStatus,
                   cstderr, sOut, sErr, sAll>>

\* runPipe lines 138-139: dup2 fails with an error other than EINTR; the
\* loop ends and the child goes on with its standard output as inherited
ChildDup2OutFails ==
    /\ child = "dup2out"
    /\ child' = "dup2err"
    /\ UNCHANGED <<notRunVars, cfgVars, parentVars, kernelVars, childPending, childStatus,
                   cstdout, cstderr, sOut, sErr, sAll>>

\* runPipe line 140: dup2(errPipe.entrance, STDERR_FILENO), retried on EINTR
ChildDup2Err ==
    /\ child = "dup2err"
    /\ cstderr' = "errPipe"
    /\ child' = "closeExits"
    /\ UNCHANGED <<notRunVars, cfgVars, parentVars, kernelVars, childPending, childStatus,
                   cstdout, sOut, sErr, sAll>>

\* runPipe lines 140-141: dup2 fails with an error other than EINTR
ChildDup2ErrFails ==
    /\ child = "dup2err"
    /\ child' = "closeExits"
    /\ UNCHANGED <<notRunVars, cfgVars, parentVars, kernelVars, childPending, childStatus,
                   cstdout, cstderr, sOut, sErr, sAll>>

\* runPipe lines 142-143: the child closes both read ends
ChildCloseExits ==
    /\ child = "closeExits"
    /\ child' = "exec"
    /\ UNCHANGED <<notRunVars, cfgVars, parentVars, kernelVars, childPending, childStatus,
                   cstdout, cstderr, sOut, sErr, sAll>>

\* the terminal's output post-processing (ONLCR) on the pty slave: a newline
\* is delivered as carriage return, newline
onlcr(b) == IF b = 10 THEN <<13, 10>> ELSE <<b>>

\* the bytes a write of byte b puts into the object behind a descriptor
wireBytes(target, b) == IF target = "pty" THEN onlcr(b) ELSE <<b>>

\* the buffer behind a descriptor of the child; an inherited stream is the
\* launcher's own standard stream, which takes every write
bufferOf(target) ==
    CASE target = "outPipe" -> outPipe
      [] target = "errPipe" -> errPipe
      [] target = "pty" -> pty
      [] OTHER -> <<>>

\* a blocking write(2) completes at once when the buffer has room for it
HasRoom(target, b) == Len(bufferOf(target)) + Len(wireBytes(target, b)) <= PipeCap

targetOf(fd) == IF fd = 1 THEN cstdout ELSE cstderr

\* the completed write of byte b to descriptor fd of the child
DoWrite(fd, b) ==
    LET target == targetOf(fd) IN
    /\ outPipe' = IF target = "outPipe" THEN outPipe \o wireBytes(target, b) ELSE outPipe
    /\ errPipe' = IF target = "errPipe" THEN errPipe \o wireBytes(target, b) ELSE errPipe
    /\ pty' = IF target = "pty" THEN pty \o wireBytes(target, b) ELSE pty
    /\ sOut' = IF fd = 1 THEN Append(sOut, b) ELSE sOut
    /\ sErr' = IF fd = 2 THEN Append(sErr, b) ELSE sErr
    /\ sAll' = Append(sAll, b)

\* replaceProcessImage() called in the child (runPipe line 145, runPty line
\* 176).  fatal() in the child writes its line to the child's standard error
\* and exits with status 1.
ChildExec ==
    /\ child = "exec"
    /\ \E o \in replaceProcessImage :
         IF o = "exec"
         THEN /\ child' = "running"
              /\ UNCHANGED <<kernelVars, childStatus, sOut, sErr, sAll>>
         ELSE IF o = "fatal"
         THEN /\ DoWrite(2, DiagByte)
              /\ child' = "zombie"
              /\ childStatus' = Exited(1)
         ELSE /\ child' = "zombie"
              /\ childStatus' = Signaled
              /\ UNCHANGED <<kernelVars, sOut, sErr, sAll>>
    /\ UNCHANGED <<notRunVars, cfgVars, parentVars, childPending, cstdout, cstderr>>

\* the target program writes one byte to its standard output or standard
\* error; the write blocks while the pipe or pty is full
ChildWrite ==
    /\ child = "running"
    /\ Len(sAll) < MaxWrites
    /\ \E fd \in {1, 2}, b \in ChildBytes :
         IF HasRoom(targetOf(fd), b)
         THEN DoWrite(fd, b) /\ UNCHANGED <<child, childPending>>
         ELSE /\ child' = "blocked"
              /\ childPending' = [fd |-> fd, byte |-> b]
              /\ UNCHANGED <<kernelVars, sOut, sErr, sAll>>
    /\ UNCHANGED <<notRunVars, cfgVars, parentVars, childStatus, cstdout, cstderr>>

\* the blocked write completes once the reader has made room
ChildUnblock ==
    /\ child = "blocked"
    /\ HasRoom(targetOf(childPending.fd), childPending.byte)
    /\ DoWrite(childPending.fd, childPending.byte)
    /\ child' = "running"
    /\ childPending' = [fd |-> 0, byte |-> 0]
    /\ UNCHANGED <<notRunVars, cfgVars, parentVars, childStatus, cstdout, cstderr>>

\* the target program exits with some code
ChildExit ==
    /\ child = "running"
    /\ \E code \in ExitCodes : childStatus' = Exited(code)
    /\ child' = "zombie"
    /\ UNCHANGED <<notRunVars, cfgVars, parentVars, kernelVars, childPending, cstdout,
                   cstderr, sOut, sErr, sAll>>

\* the target program is terminated by a signal it raised (abort)
ChildKilled ==
    /\ child = "running"
    /\ childStatus' = Signaled
    /\ child' = "zombie"
    /\ UNCHANGED <<notRunVars, cfgVars, parentVars, kernelVars, childPending, cstdout,
                   cstderr, sOut, sErr, sAll>>

InitRun ==
    /\ mode \in RunModes
    /\ m_dryRun \in BOOLEAN
    /\ m_verbose \in BOOLEAN
    /\ m_onError \in OnErrors
    /\ m_cd \in BOOLEAN
    /\ m_envOverride \in {0, 1}
    /\ pc = "run"
    /\ result = NoInt
    /\ ret = NoInt
    /\ exitStatus = NoInt
    /\ pfds = {}
    /\ cerr = <<>>
    /\ outStream = <<>>
    /\ errStream = <<>>
    /\ outFlushed = 0
    /\ errFlushed = 0
    /\ errReads = 0
    /\ eintrs = 0
    /\ outPipe = <<>>
    /\ errPipe = <<>>
    /\ pty = <<>>
    /\ child = "none"
    /\ childPending = [fd |-> 0, byte |-> 0]
    /\ childStatus = NoStatus
    /\ cstdout = "inherited"
    /\ cstderr = "inherited"
    /\ sOut = <<>>
    /\ sErr = <<>>
    /\ sAll = <<>>

NextRun ==
    \/ RunEnter
    \/ OpenOutPipe
    \/ OpenErrPipe
    \/ Fork
    \/ CloseEntrances
    \/ PumpOut
    \/ CloseOutExit
    \/ PumpErr
    \/ CloseErrExit
    \/ ChildExitWait
    \/ RunPolicy
    \/ ForkPty
    \/ PumpPty
    \/ CloseMaster
    \/ ExecPty
    \/ ChildDup2Out
    \/ ChildDup2Err
    \/ ChildCloseExits
    \/ ChildExec
    \/ ChildWrite
    \/ ChildUnblock
    \/ ChildExit
    \/ ChildKilled

\* the statements of the calling process in run(RunMode::Block)
ParentStep ==
    \/ RunEnter
    \/ OpenOutPipe
    \/ OpenErrPipe
    \/ Fork
    \/ CloseEntrances
    \/ PumpOut
    \/ CloseOutExit
    \/ PumpErr
    \/ CloseErrExit
    \/ ChildExitWait
    \/ RunPolicy

\* the statements of runPipe the forked child executes (lines 137-146)
ChildSetup ==
    \/ ChildDup2Out
    \/ ChildDup2Err
    \/ ChildCloseExits
    \/ ChildExec

\* run(RunMode::Block) with its child
NextRunPipe ==
    \/ ParentStep
    \/ ChildSetup
    \/ ChildWrite
    \/ ChildUnblock
    \/ ChildExit
    \/ ChildKilled

\* run(RunMode::Block) is called, not as a dry run
InitRunPipe == InitRun /\ mode = "Block" /\ ~m_dryRun /\ ~m_verbose

\* the variables of which every statement of the parent and of the child
\* changes at least one
progressVars == <<pc, pfds, eintrs, errReads, kernelVars, childVars>>

\* Both processes are scheduled: a statement of the parent or of the child's
\* set-up that can be executed is executed, and a blocked write completes
\* once the pipe has room.  What the target program does, and whether it
\* ever exits, is left open.
FairRunPipe ==
    /\ WF_progressVars(ParentStep)
    /\ WF_progressVars(ChildSetup)
    /\ WF_progressVars(ChildUnblock)

\* Command::run when dup2 in the child and read in the parent can fail
NextRunFaults ==
    \/ NextRun
    \/ ChildDup2OutFails
    \/ ChildDup2ErrFails
    \/ PumpOutFails
    \/ PumpErrFails

\* the launcher variables while another component runs
IdleRun ==
    /\ mode = "Block" /\ m_dryRun = FALSE /\ m_verbose = FALSE
    /\ m_onError = "Fatal" /\ m_cd = FALSE /\ m_envOverride = 0
    /\ pc = "idle" /\ result = NoInt /\ ret = NoInt /\ exitStatus = NoInt
    /\ pfds = {} /\ cerr = <<>> /\ outStream = <<>> /\ errStream = <<>>
    /\ outFlushed = 0 /\ errFlushed = 0 /\ errReads = 0 /\ eintrs = 0
    /\ outPipe = <<>> /\ errPipe = <<>> /\ pty = <<>>
    /\ child = "none" /\ childPending = [fd |-> 0, byte |-> 0]
    /\ childStatus = NoStatus /\ cstdout = "inherited" /\ cstderr = "inherited"
    /\ sOut = <<>> /\ sErr = <<>> /\ sAll = <<>>

(***************************************************************************)
(* TerminalController: readKey                                             *)
(***************************************************************************)
\* enum class EditorKey (src/unnamed/part_003 lines 47-58)
Backspace == 127
ArrowLeft == 1000
ArrowRight == 1001
ArrowUp == 1002
ArrowDown == 1003
DeleteKey == 1004
HomeKey == 1005
EndKey == 1006
PageUp == 1007
PageDown == 1008
\* '\x1b'
ESC == 27

\* bytes the terminal device delivers in the model: CR, ESC, the digits,
\* A B C D F H O [ x ~ DEL and one byte above 127
KeyBytes == {13, 27} \cup (48..57) \cup (65..68) \cup {70, 72, 79, 91, 120, 126, 127, 200}

\* what one read(STDIN_FILENO, &ch, 1) in raw mode (VMIN 0, VTIME 1) can give:
\* one byte, 0 after the timeout, or an error
StdinReads ==
    {[count |-> 1, byte |-> b, errno |-> "none"] : b \in KeyBytes}
    \cup {[count |-> 0, byte |-> 0, errno |-> "none"],
          [count |-> -1, byte |-> 0, errno |-> "EAGAIN"],
          [count |-> -1, byte |-> 0, errno |-> "EIO"]}

\* conversion of a char holding byte b to int (return c; return '\x1b')
charToInt(b) == IF charSigned /\ b >= 128 THEN b - 256 ELSE b

\* mutant of csiLetter: the codes of ESC [ C and ESC [ D are exchanged
csiLetter_swapped(ch) ==
    CASE ch = 65 -> ArrowUp
      [] ch = 66 -> ArrowDown
      [] ch = 67 -> ArrowLeft
      [] ch = 68 -> ArrowRight
      [] ch = 72 -> HomeKey
      [] ch = 70 -> EndKey
      [] OTHER -> ESC

\* readKey lines 92-105 (and line 115): ESC [ <letter>
csiLetter(ch) ==
    CASE ch = 65 -> ArrowUp
      [] ch = 66 -> ArrowDown
      [] ch = 67 -> ArrowRight
      [] ch = 68 -> ArrowLeft
      [] ch = 72 -> HomeKey
      [] ch = 70 -> EndKey
      [] OTHER -> ESC

\* readKey lines 73-90 (and line 115): ESC [ <digit> ~
csiTilde(digit) ==
    CASE digit = 49 -> HomeKey
      [] digit = 51 -> DeleteKey
      [] digit = 52 -> EndKey
      [] digit = 53 -> PageUp
      [] digit = 54 -> PageDown
      [] digit = 55 -> HomeKey
      [] digit = 56 -> EndKey
      [] OTHER -> ESC

\* readKey lines 107-114 (and line 115): ESC O <letter>
ss3Letter(ch) ==
    CASE ch = 72 -> HomeKey
      [] ch = 70 -> EndKey
      [] OTHER -> ESC

\* readKey returns k
ReturnKey(k) == kpc' = "done" /\ key' = k

\* readKey lines 51-59: the loop reading the first byte
ReadKeyFirst ==
    /\ kpc = "first"
    /\ \E r \in StdinReads :
         IF r.count = 1
         THEN /\ c' = r.byte
              /\ IF r.byte = ESC
                 THEN kpc' = "seq0" /\ UNCHANGED key
                 ELSE ReturnKey(charToInt(r.byte))
         ELSE IF r.count = -1 /\ r.errno # "EAGAIN"
         THEN kpc' = "died" /\ UNCHANGED <<c, key>>
         ELSE UNCHANGED <<kpc, c, key>>
    /\ UNCHANGED <<notKeyVars, charSigned, seq>>

\* readKey lines 61-63: read(STDIN_FILENO, &seq[0], 1)
ReadKeySeq0 ==
    /\ kpc = "seq0"
    /\ \E r \in StdinReads :
         IF r.count # 1
         THEN ReturnKey(ESC) /\ UNCHANGED seq
         ELSE seq' = <<r.byte>> /\ kpc' = "seq1" /\ UNCHANGED key
    /\ UNCHANGED <<notKeyVars, charSigned, c>>

\* readKey lines 64-69 and 91-115: read(STDIN_FILENO, &seq[1], 1) and the
\* two-byte sequences
ReadKeySeq1 ==
    /\ kpc = "seq1"
    /\ \E r \in StdinReads :
         IF r.count # 1
         THEN ReturnKey(ESC) /\ UNCHANGED seq
         ELSE /\ seq' = Append(seq, r.byte)
              /\ IF seq[1] = 91
                 THEN IF r.byte >= 48 /\ r.byte <= 57
                      THEN kpc' = "seq2" /\ UNCHANGED key
                      ELSE ReturnKey(csiLetter(r.byte))
                 ELSE IF seq[1] = 79
                      THEN ReturnKey(ss3Letter(r.byte))
                      ELSE ReturnKey(ESC)
    /\ UNCHANGED <<notKeyVars, charSigned, c>>

\* readKey lines 70-90: read(STDIN_FILENO, &seq[2], 1) and ESC [ <digit> ~
ReadKeySeq2 ==
    /\ kpc = "seq2"
    /\ \E r \in StdinReads :
         IF r.count # 1
         THEN ReturnKey(ESC) /\ UNCHANGED seq
         ELSE /\ seq' = Append(seq, r.byte)
              /\ IF r.byte = 126
                 THEN ReturnKey(csiTilde(seq[2]))
                 ELSE ReturnKey(ESC)
    /\ UNCHANGED <<notKeyVars, charSigned, c>>

\* the caller calls readKey again (the loop of rawRepl)
ReadKeyAgain ==
    /\ kpc = "done"
    /\ kpc' = "first"
    /\ c' = 0
    /\ seq' = <<>>
    /\ key' = "none"
    /\ UNCHANGED <<notKeyVars, charSigned>>

InitKey ==
    /\ kpc = "first"
    /\ charSigned \in BOOLEAN
    /\ c = 0
    /\ seq = <<>>
    /\ key = "none"

\* the key variables while another component runs
IdleKey == kpc = "idle" /\ charSigned = FALSE /\ c = 0 /\ seq = <<>> /\ key = "none"

NextKey ==
    \/ ReadKeyFirst
    \/ ReadKeySeq0
    \/ ReadKeySeq1
    \/ ReadKeySeq2
    \/ ReadKeyAgain

(***************************************************************************)
(* TextWrapper: toRows                                                     *)
(***************************************************************************)
\* '\t', '\n', ' '
TAB == 9
NL == 10
SPACE == 32
\* characters of the content strings: tab, newline, 'a', 'b'
ContentChars == {TAB, NL, 97, 98}

\* all sequences over S of length at most n
RECURSIVE SeqsUpTo(_, _)
SeqsUpTo(S, n) ==
    IF n = 0 THEN {<<>>}
    ELSE LET shorter == SeqsUpTo(S, n - 1)
         IN shorter \cup {Append(t, x) : t \in {u \in shorter : Len(u) = n - 1}, x \in S}

\* toRows line 30: whether a tab starts a new row first
tabBreak(rowWidth, w) == rowWidth + 4 >= w

\* mutant of toRowsFinish: the final row is emitted also when it is empty
toRowsFinish_always(res, next) == Append(res, next)

\* mutant of toRowsFinish: the final partial row is not emitted
toRowsFinish_dropLast(res, next) == res

\* toRows lines 43-46: the final partial row
toRowsFinish(res, next) ==
    IF next # <<>> THEN Append(res, next) ELSE res

\* toRows lines 23-41: the loop, at character i (1-based) of text with
\* the locals result, next and rowWidth
RECURSIVE toRowsLoop(_, _, _, _, _, _)
toRowsLoop(text, w, i, res, next, rowWidth) ==
    IF i > Len(text) THEN toRowsFinish(res, next)
    ELSE
      LET full == rowWidth = w
          r1 == IF full THEN Append(res, next) ELSE res
          n1 == IF full THEN <<>> ELSE next
          w1 == IF full THEN 0 ELSE rowWidth
          ch == text[i]
      IN  IF ch = TAB
          THEN LET brk == tabBreak(w1, w)
                   r2 == IF brk THEN Append(r1, n1) ELSE r1
                   n2 == IF brk THEN <<>> ELSE n1
                   w2 == IF brk THEN 0 ELSE w1
               IN toRowsLoop(text, w, i + 1, r2,
                             n2 \o <<SPACE, SPACE, SPACE, SPACE>>, w2 + 4)
          ELSE IF ch = NL
          THEN toRowsLoop(text, w, i + 1, Append(r1, n1), <<>>, 0)
          ELSE toRowsLoop(text, w, i + 1, r1, Append(n1, ch), w1 + 1)

\* toRows lines 11-47
toRows(text, w) == toRowsLoop(text, w, 1, <<>>, <<>>, 0)

\* a caller applies toRows to content and width
Wrap ==
    /\ wpc = "call"
    /\ rows' = toRows(content, width)
    /\ wpc' = "done"
    /\ UNCHANGED <<notWrapVars, content, width>>

InitWrap ==
    /\ wpc = "call"
    /\ content \in SeqsUpTo(ContentChars, MaxContent)
    /\ width \in 1..MaxWidth
    /\ rows = <<>>

\* the wrap variables while another component runs
IdleWrap == wpc = "idle" /\ content = <<>> /\ width = 1 /\ rows = <<>>

NextWrap == Wrap

(***************************************************************************)
(* Vm: addParam, addCommand, parseTokens and the printing of a ParseResult *)
(***************************************************************************)
\* parameter ids, command ids and tokens; "hi" is a command id and names an
\* existing file, "x" names no file, and "" is the token between two
\* adjacent spaces
ParamIds == {"string", "file"}
CommandIds == {"print", "hi"}
Words == {"hi", "x", ""}
Files == {"hi"}
\* main lines 714-718: the parameter lists commands are registered with, and
\* one more that mixes two parameter ids
ParamLists ==
    {<<>>, <<"string">>, <<"file">>, <<"string", "string">>, <<"string", "file">>}
\* main line 711 and 712: the validators, named after the parameter they
\* are written for
Validators == {"string", "file"}
validate(validator, s) ==
    IF validator = "string" THEN s # "" ELSE s \in Files

\* the null pointer; VmParam objects live at addresses 1..Len(vmHeap)
NULL == 0
\* the value of a call that ended in fatal()
FATAL == -1
EmptyMap == [x \in {} |-> NULL]
NoCall == [op |-> "none", id |-> "", validator |-> "", paramIds |-> <<>>,
           tokens |-> <<>>]
NoParse == [present |-> FALSE, commandName |-> "", found |-> FALSE,
            command |-> <<>>, args |-> <<>>]

\* mutant of addParam: a registered id keeps its first VmParam
addParam_keepsFirst(id, validator) ==
    /\ vmStatus = "registering"
    /\ Len(vmHeap) < MaxAllocs
    /\ vmHeap' = Append(vmHeap, [type |-> id, validate |-> validator])
    /\ m_params' = [x \in DOMAIN m_params \cup {id} |->
                      IF x \in DOMAIN m_params THEN m_params[x]
                      ELSE Len(vmHeap) + 1]
    /\ vmFreed' = IF id \in DOMAIN m_params
                  THEN vmFreed \cup {Len(vmHeap) + 1} ELSE vmFreed
    /\ lastCall' = [NoCall EXCEPT !.op = "addParam", !.id = id,
                                  !.validator = validator]
    /\ UNCHANGED <<notVmVars, m_commands, vmStatus, vmCerr, parseResult, printed>>

\* Vm::addParam: a new VmParam is allocated and the map slot is assigned;
\* the unique_ptr assignment destroys the object the slot held before
addParam(id, validator) ==
    /\ vmStatus = "registering"
    /\ Len(vmHeap) < MaxAllocs
    /\ vmHeap' = Append(vmHeap, [type |-> id, validate |-> validator])
    /\ m_params' = [x \in DOMAIN m_params \cup {id} |->
                      IF x = id THEN Len(vmHeap) + 1 ELSE m_params[x]]
    /\ vmFreed' = IF id \in DOMAIN m_params
                  THEN vmFreed \cup {m_params[id]} ELSE vmFreed
    /\ lastCall' = [NoCall EXCEPT !.op = "addParam", !.id = id,
                                  !.validator = validator]
    /\ UNCHANGED <<notVmVars, m_commands, vmStatus, vmCerr, parseResult, printed>>

AddParam == \E id \in ParamIds, validator \in Validators : addParam(id, validator)

\* mutant of getParam: an unknown id yields a null pointer
getParam_null(id) ==
    IF id \in DOMAIN m_params THEN m_params[id] ELSE NULL

\* Vm::getParam: the address of the registered VmParam, or fatal
getParam(id) ==
    IF id \in DOMAIN m_params THEN m_params[id] ELSE FATAL

\* Vm::addCommand: every parameter id is resolved first; try_emplace keeps
\* an existing command of the same id
addCommand(id, paramIds) ==
    LET params == [i \in 1..Len(paramIds) |-> getParam(paramIds[i])]
        bad == {i \in 1..Len(paramIds) : params[i] = FATAL}
    IN  /\ vmStatus = "registering"
        /\ lastCall' = [NoCall EXCEPT !.op = "addCommand", !.id = id,
                                      !.paramIds = paramIds]
        /\ IF bad # {}
           THEN /\ vmCerr' = Append(vmCerr, "invalid param id")
                /\ vmStatus' = "exited"
                /\ UNCHANGED m_commands
           ELSE /\ m_commands' =
                     IF id \in DOMAIN m_commands THEN m_commands
                     ELSE [x \in DOMAIN m_commands \cup {id} |->
                             IF x = id THEN params ELSE m_commands[x]]
                /\ UNCHANGED <<vmCerr, vmStatus>>
        /\ UNCHANGED <<notVmVars, m_params, vmHeap, vmFreed, parseResult, printed>>

AddCommand ==
    \E id \in CommandIds, paramIds \in ParamLists :
        addCommand(id, paramIds)

\* main: the registrations are over and the REPL starts
StartRepl ==
    /\ vmStatus = "registering"
    /\ vmStatus' = "repl"
    /\ lastCall' = [NoCall EXCEPT !.op = "cookedRepl"]
    /\ UNCHANGED <<notVmVars, m_params, m_commands, vmHeap, vmFreed, vmCerr,
                   parseResult, printed>>

\* Vm::findCommandPtr: whether a command of that name is registered
findCommandPtr(name) == name \in DOMAIN m_commands

\* mutant of parseTokens: the command name stays among the arguments
parseTokens_keepsName(tokens) ==
    IF tokens = <<>> THEN NoParse
    ELSE [present |-> TRUE,
          commandName |-> Head(tokens),
          found |-> findCommandPtr(Head(tokens)),
          command |-> IF findCommandPtr(Head(tokens))
                      THEN m_commands[Head(tokens)] ELSE <<>>,
          args |-> tokens]

\* Vm::parseTokens
parseTokens(tokens) ==
    IF tokens = <<>> THEN NoParse
    ELSE [present |-> TRUE,
          commandName |-> Head(tokens),
          found |-> findCommandPtr(Head(tokens)),
          command |-> IF findCommandPtr(Head(tokens))
                      THEN m_commands[Head(tokens)] ELSE <<>>,
          args |-> Tail(tokens)]

\* VmCommand::numParams
numParams(command) == Len(command)

\* mutant of numArgs: only the tokens supplied are counted
numArgs_tokensOnly(v) == Len(v.args)

\* ParseResult::numArgs
numArgs(v) ==
    IF v.found THEN Max(Len(v.args), numParams(v.command)) ELSE Len(v.args)

\* VmCommand::param at the 0-based position argPos: std::out_of_range from
\* at(), fatal on a null pointer, else the address
param(command, argPos) ==
    IF argPos >= Len(command) THEN "out_of_range"
    ELSE IF command[argPos + 1] = NULL THEN "fatal"
    ELSE "ok"

\* operator<< at the 0-based position i: the possible outcomes.  Reading a
\* destroyed VmParam is undefined: either answer, or a crash.  `evaluated`
\* tells whether the predicate was called (&& evaluates it last).
argOutcomes(v, i) ==
    LET haveArgString == i < Len(v.args)
        haveArgType == v.found /\ i < numParams(v.command)
        ptr == v.command[i + 1]
        cell(valid, type, err, evaluated) ==
            [arg |-> IF haveArgString THEN v.args[i + 1] ELSE "?",
             type |-> type, isValid |-> valid, err |-> err,
             evaluated |-> evaluated]
    IN  IF ~haveArgType THEN {cell(FALSE, "unknown", "none", FALSE)}
        ELSE IF param(v.command, i) # "ok"
             THEN {cell(FALSE, "unknown", param(v.command, i), FALSE)}
        ELSE IF ptr \in vmFreed
             THEN {cell(b, "garbage", "none", haveArgString) :
                      b \in IF haveArgString THEN BOOLEAN ELSE {FALSE}}
                  \cup {cell(FALSE, "garbage", "crash", haveArgString)}
        ELSE {cell(haveArgString /\ validate(vmHeap[ptr].validate, v.args[i + 1]),
                   vmHeap[ptr].type, "none", haveArgString)}

\* operator<<: the cells printed after the command name, up to and
\* including the first one that ends the process
printOutcomes(v) ==
    LET n == numArgs(v)
        all == UNION {argOutcomes(v, i) : i \in 0..(n - 1)}
    IN  {cells \in UNION {[1..k -> all] : k \in 0..n} :
           /\ \A i \in 1..Len(cells) : cells[i] \in argOutcomes(v, i - 1)
           /\ \A i \in 1..(Len(cells) - 1) : cells[i].err = "none"
           /\ Len(cells) < n => (Len(cells) > 0 /\ cells[Len(cells)].err # "none")}

\* cookedRepl lines 669-675: one line is parsed and printed
ParseTokens ==
    \E tokens \in SeqsUpTo(Words, MaxTokens) :
      LET v == parseTokens(tokens)
      IN  /\ vmStatus = "repl"
          /\ parseResult' = v
          /\ lastCall' = [NoCall EXCEPT !.op = "parseTokens", !.tokens = tokens]
          /\ IF ~v.present
             THEN /\ printed' = <<>>
                  /\ vmStatus' = "printed"
                  /\ UNCHANGED vmCerr
             ELSE \E cells \in printOutcomes(v) :
                    LET err == IF cells = <<>> THEN "none"
                               ELSE cells[Len(cells)].err
                    IN  /\ printed' = cells
                        /\ vmStatus' = CASE err = "none" -> "printed"
                                         [] err = "fatal" -> "exited"
                                         [] err = "out_of_range" -> "aborted"
                                         [] OTHER -> "crashed"
                        /\ vmCerr' = IF err = "fatal"
                                     THEN Append(vmCerr, "no param at")
                                     ELSE vmCerr
          /\ UNCHANGED <<notVmVars, m_params, m_commands, vmHeap, vmFreed>>

\* cookedRepl line 665: the loop goes on to the next line
NextLine ==
    /\ vmStatus = "printed"
    /\ vmStatus' = "repl"
    /\ parseResult' = NoParse
    /\ printed' = <<>>
    /\ lastCall' = [NoCall EXCEPT !.op = "cookedRepl"]
    /\ UNCHANGED <<notVmVars, m_params, m_commands, vmHeap, vmFreed, vmCerr>>

InitVm ==
    /\ m_params = EmptyMap
    /\ m_commands = EmptyMap
    /\ vmHeap = <<>>
    /\ vmFreed = {}
    /\ vmStatus = "registering"
    /\ vmCerr = <<>>
    /\ lastCall = NoCall
    /\ parseResult = NoParse
    /\ printed = <<>>

\* the Vm variables while another component runs
IdleVm ==
    /\ m_params = EmptyMap
    /\ m_commands = EmptyMap
    /\ vmHeap = <<>>
    /\ vmFreed = {}
    /\ vmStatus = "idle"
    /\ vmCerr = <<>>
    /\ lastCall = NoCall
    /\ parseResult = NoParse
    /\ printed = <<>>

NextVm == AddParam \/ AddCommand \/ StartRepl \/ ParseTokens \/ NextLine

(***************************************************************************)
(* rawRepl: raw mode, the Editor and the ways the process ends             *)
(***************************************************************************)
\* ctrlKey: k & 0x1F
ctrlKey(k) == k % 32
\* '\r', and the letters q, h, c, l, a
CR == 13
EditorInputs ==
    {CR, ctrlKey(113), ctrlKey(104), ctrlKey(99), ctrlKey(108), ESC, 97,
     Backspace, ArrowLeft, ArrowRight, ArrowUp, ArrowDown, DeleteKey, HomeKey,
     EndKey, PageUp, PageDown}

\* ::exit(status): the atexit handlers run, then the process ends.
\* exitRawMode restores the saved settings; when its tcsetattr fails it calls
\* fatal, and the terminal keeps the settings it had.
exit(status, written) ==
    /\ rpc' = "ended"
    /\ IF atexitFns = <<>>
       THEN /\ procExit' = status
            /\ ttyLog' = written \o <<"exit">>
            /\ UNCHANGED termios
       ELSE \E restored \in BOOLEAN :
              IF restored
              THEN /\ termios' = "orig"
                   /\ procExit' = status
                   /\ ttyLog' = written \o <<"tcsetattr orig", "exit">>
              ELSE /\ termios' = termios
                   /\ procExit' = "1"
                   /\ ttyLog' = written \o <<"tcsetattr failed", "exit">>
    /\ UNCHANGED atexitFns

\* the two writes of die and of the quit key: "\x1b[2J" and "\x1b[H"
ClearAndHome == <<"ESC[2J", "ESC[H">>

\* enterRawMode: tcgetattr, tcsetattr(raw), atexit(exitRawMode)
EnterRawMode ==
    /\ rpc = "start"
    /\ \E outcome \in {"ok", "tcgetattr", "tcsetattr"} :
         IF outcome = "ok"
         THEN /\ termios' = "raw"
              /\ atexitFns' = Append(atexitFns, "exitRawMode")
              /\ rpc' = "ctor"
              /\ UNCHANGED <<procExit, ttyLog>>
         ELSE exit("1", <<>>)
    /\ UNCHANGED <<notReplVars, winSize, cursor, currentCommand, entries, pressed,
                   drawn, screen>>

\* Editor::Editor: the window size, or die
EditorCtor ==
    /\ rpc = "ctor"
    /\ \/ /\ \E x \in 1..MaxCols, y \in 1..MaxRows : winSize' = [x |-> x, y |-> y]
          /\ rpc' = "refresh"
          /\ UNCHANGED <<termios, atexitFns, procExit, ttyLog>>
       \/ /\ exit("1", ClearAndHome)
          /\ UNCHANGED winSize
    /\ UNCHANGED <<notReplVars, cursor, currentCommand, entries, pressed, drawn, screen>>

\* RenderableWrappedText::rows: the cache is keyed by the width asked for, so
\* the result is always toRows of the content at that width
rowsOf(entry, cols) == toRows(entry, cols)

\* Outputs::render line 452: the width handed to rows() is numLines
renderWidth(numLines) == numLines

\* Outputs::render lines 449-461: the entries from index i on with
\* linesRendered lines in the buffer so far; each visited entry contributes
\* its rows until linesRendered reaches numLines
RECURSIVE render(_, _, _, _)
render(ents, i, linesRendered, numLines) ==
    IF i > Len(ents) \/ linesRendered = numLines THEN <<>>
    ELSE LET all == rowsOf(ents[i], renderWidth(numLines))
             room == IF numLines > linesRendered
                     THEN numLines - linesRendered ELSE Len(all)
             shown == Take(all, Min(room, Len(all)))
         IN  <<shown>> \o render(ents, i + 1, linesRendered + Len(shown), numLines)

\* std::to_string of a number that is not negative, as characters
RECURSIVE to_string(_)
to_string(n) ==
    IF n < 10 THEN <<48 + n>> ELSE to_string(n \div 10) \o <<48 + (n % 10)>>

\* Outputs::render lines 463-466: the placeholder lines "~ <n>" for the
\* lines from linesRendered up to numLines
RECURSIVE renderFill(_, _)
renderFill(linesRendered, numLines) ==
    IF linesRendered < numLines
    THEN <<<<126, SPACE>> \o to_string(linesRendered)>>
            \o renderFill(linesRendered + 1, numLines)
    ELSE <<>>

\* the rows of all visited entries, in the order they were appended
RECURSIVE renderedRows(_)
renderedRows(shown) ==
    IF shown = <<>> THEN <<>> ELSE Head(shown) \o renderedRows(Tail(shown))

\* mutant of appendTruncated: the whole content is appended
appendTruncated_whole(text) == text

\* drawRows lines 574-578: the content cut to the window width
appendTruncated(text) == Take(text, Min(Len(text), winSize.x))

\* drawRows lines 563-590: the lines appended to the buffer: the scrollback
\* lines of render, the current command, and the line below it
drawRows ==
    LET terminalRows == winSize.y - 2
        shown == renderedRows(render(entries, 1, 0, terminalRows))
    IN  [scrollback |-> shown \o renderFill(Len(shown), terminalRows),
         command |-> appendTruncated(currentCommand),
         detail |-> "crew interpreter - ctrl-q to quit"]

\* nothing drawn yet
NoScreen == [scrollback |-> <<>>, command |-> <<>>, detail |-> ""]

\* Editor::refreshScreen: drawRows renders the entries into terminalRows
\* lines and puts the cursor on the prompt row
RefreshScreen ==
    /\ rpc = "refresh"
    /\ drawn' = render(entries, 1, 0, winSize.y - 2)
    /\ screen' = drawRows
    /\ cursor' = [cursor EXCEPT !.y = winSize.y - 2]
    /\ rpc' = "key"
    /\ UNCHANGED <<notReplVars, termios, atexitFns, procExit, winSize,
                   currentCommand, entries, pressed, ttyLog>>

\* Editor::moveCursor
moveCursor(cur, k) ==
    CASE k = ArrowLeft -> IF cur.x > 0 THEN [cur EXCEPT !.x = @ - 1] ELSE cur
      [] k = ArrowRight -> IF cur.x < winSize.x - 1 THEN [cur EXCEPT !.x = @ + 1] ELSE cur
      [] k = ArrowUp -> IF cur.y > 0 THEN [cur EXCEPT !.y = @ - 1] ELSE cur
      [] k = ArrowDown -> IF cur.y < winSize.y - 1 THEN [cur EXCEPT !.y = @ + 1] ELSE cur
      [] OTHER -> cur

\* processKeypress lines 516-521: moveCursor repeated
RECURSIVE moveCursorTimes(_, _, _)
moveCursorTimes(cur, k, times) ==
    IF times = 0 THEN cur ELSE moveCursorTimes(moveCursor(cur, k), k, times - 1)

\* the Editor members that processKeypress works on
editor == [currentCommand |-> currentCommand, cursor |-> cursor, entries |-> entries]

\* std::string::push_back(c) with an int c: the value is converted to char
toChar(k) == k % 256

\* mutant of pressEnter: the input buffer is kept
pressEnter_keepsBuffer(ed) ==
    [ed EXCEPT !.entries = Append(@, ed.currentCommand), !.cursor.x = 0]

\* processKeypress lines 504-508: '\r'
pressEnter(ed) ==
    [ed EXCEPT !.entries = Append(@, ed.currentCommand),
               !.currentCommand = <<>>,
               !.cursor.x = 0]

\* mutant of pressBackspace: the cursor recedes on an empty buffer as well
pressBackspace_alwaysRecedes(ed) ==
    IF ed.currentCommand # <<>>
    THEN [ed EXCEPT !.currentCommand = Take(@, Len(@) - 1), !.cursor.x = @ - 1]
    ELSE [ed EXCEPT !.cursor.x = @ - 1]

\* processKeypress lines 536-542: Backspace and ctrl-h
pressBackspace(ed) ==
    IF ed.currentCommand # <<>>
    THEN [ed EXCEPT !.currentCommand = Take(@, Len(@) - 1), !.cursor.x = @ - 1]
    ELSE ed

\* processKeypress lines 554-557: any other key
pressChar(ed, k) ==
    [ed EXCEPT !.currentCommand = Append(@, toChar(k)), !.cursor.x = @ + 1]

\* processKeypress lines 503-557: the switch, for every key but ctrl-q
keyEffect(ed, k) ==
    CASE k = CR -> pressEnter(ed)
      [] k \in {PageUp, PageDown} ->
           [ed EXCEPT !.cursor = moveCursorTimes(ed.cursor,
                                     IF k = PageUp THEN ArrowUp ELSE ArrowDown,
                                     winSize.y)]
      [] k \in {ArrowLeft, ArrowRight, ArrowUp, ArrowDown} ->
           [ed EXCEPT !.cursor = moveCursor(ed.cursor, k)]
      [] k = HomeKey -> [ed EXCEPT !.cursor.x = 0]
      [] k = EndKey -> [ed EXCEPT !.cursor.x = winSize.x - 1]
      [] k \in {Backspace, ctrlKey(104)} -> pressBackspace(ed)
      [] k = ctrlKey(99) -> [ed EXCEPT !.currentCommand = <<>>, !.cursor.x = 1]
      [] k \in {DeleteKey, ctrlKey(108), ESC} -> ed
      [] OTHER -> pressChar(ed, k)

\* whether the key makes the input buffer or the scrollback grow
growsBuffer(k) ==
    k \notin {CR, ctrlKey(113), PageUp, PageDown, ArrowLeft, ArrowRight, ArrowUp,
              ArrowDown, HomeKey, EndKey, Backspace, ctrlKey(104), ctrlKey(99),
              DeleteKey, ctrlKey(108), ESC}

\* Editor::processKeypress for the key k that readKey returned
processKeypress(k) ==
    /\ rpc = "key"
    /\ pressed' = k
    /\ IF k = ctrlKey(113)
       THEN /\ exit("0", ClearAndHome)
            /\ UNCHANGED <<cursor, currentCommand, entries>>
       ELSE
         /\ k = CR => Len(entries) < MaxEntries
         /\ growsBuffer(k) => Len(currentCommand) < MaxBuf
         /\ rpc' = "refresh"
         /\ UNCHANGED <<termios, atexitFns, procExit, ttyLog>>
         /\ currentCommand' = keyEffect(editor, k).currentCommand
         /\ cursor' = keyEffect(editor, k).cursor
         /\ entries' = keyEffect(editor, k).entries
    /\ UNCHANGED <<notReplVars, winSize, drawn, screen>>

ProcessKeypress == \E k \in EditorInputs : processKeypress(k)

\* keys below 32, which readKey passes through as they are: '\r', ESC and
\* ctrl with q, h, c, l and a
ControlInputs ==
    {CR, ESC, ctrlKey(113), ctrlKey(104), ctrlKey(99), ctrlKey(108), ctrlKey(97)}

\* Editor::processKeypress when a control key is read
ProcessControlKey == \E k \in ControlInputs : processKeypress(k)

\* readKey lines 53-57: a failing read ends the process through die
ReadKeyDies ==
    /\ rpc = "key"
    /\ exit("1", ClearAndHome)
    /\ UNCHANGED <<notReplVars, winSize, cursor, currentCommand, entries, pressed,
                   drawn, screen>>

\* a terminating signal or an abort: the process ends without ::exit, so no
\* atexit handler runs (no signal handler is installed anywhere)
Terminated ==
    /\ rpc \in {"ctor", "refresh", "key"}
    /\ rpc' = "ended"
    /\ procExit' = "signal"
    /\ UNCHANGED <<notReplVars, termios, atexitFns, winSize, cursor,
                   currentCommand, entries, pressed, ttyLog, drawn, screen>>

InitRepl ==
    /\ rpc = "start"
    /\ termios = "orig"
    /\ atexitFns = <<>>
    /\ procExit = "none"
    /\ winSize = [x |-> 0, y |-> 0]
    /\ cursor = [x |-> 0, y |-> 0]
    /\ currentCommand = <<>>
    /\ entries = <<>>
    /\ pressed = 0
    /\ ttyLog = <<>>
    /\ drawn = <<>>
    /\ screen = NoScreen

\* the rawRepl variables while another component runs
IdleRepl ==
    /\ rpc = "idle"
    /\ termios = "orig"
    /\ atexitFns = <<>>
    /\ procExit = "none"
    /\ winSize = [x |-> 0, y |-> 0]
    /\ cursor = [x |-> 0, y |-> 0]
    /\ currentCommand = <<>>
    /\ entries = <<>>
    /\ pressed = 0
    /\ ttyLog = <<>>
    /\ drawn = <<>>
    /\ screen = NoScreen

NextRepl ==
    \/ EnterRawMode
    \/ EditorCtor
    \/ RefreshScreen
    \/ ProcessKeypress
    \/ ReadKeyDies
    \/ Terminated

\* rawRepl driven by control keys only
NextReplControl ==
    \/ EnterRawMode
    \/ EditorCtor
    \/ RefreshScreen
    \/ ProcessControlKey
    \/ ReadKeyDies
    \/ Terminated

(***************************************************************************)
(* tokenize: the input line split at spaces                                *)
(***************************************************************************)
\* characters of the input lines: ' ', 'a', 'b'
LineChars == {SPACE, 97, 98}

\* std::getline(check1, intermediate, ' ') on the unread part `rest` of the
\* stream: it fails when nothing is left; else it extracts up to the first
\* space, which it consumes, or up to the end
getline(rest) ==
    IF rest = <<>> THEN [ok |-> FALSE, intermediate |-> <<>>, rest |-> <<>>]
    ELSE LET spaces == {i \in 1..Len(rest) : rest[i] = SPACE}
             n == IF spaces = {} THEN Len(rest) + 1
                  ELSE CHOOSE i \in spaces : \A j \in spaces : i <= j
         IN  [ok |-> TRUE, intermediate |-> Take(rest, n - 1), rest |-> Drop(rest, n)]

\* tokenize lines 16-18: the loop, with the vector built so far
RECURSIVE tokenizeLoop(_, _)
tokenizeLoop(rest, toks) ==
    LET g == getline(rest)
    IN  IF g.ok THEN tokenizeLoop(g.rest, Append(toks, g.intermediate)) ELSE toks

\* tokenize
tokenize(in) == tokenizeLoop(in, <<>>)

\* cookedRepl line 669: tokenize applied to the line read
Tokenize ==
    /\ tpc = "call"
    /\ tokenVec' = tokenize(line)
    /\ tpc' = "done"
    /\ UNCHANGED <<notTokVars, line>>

InitTok ==
    /\ tpc = "call"
    /\ line \in SeqsUpTo(LineChars, MaxLine)
    /\ tokenVec = <<>>

\* the tokenize variables while another component runs
IdleTok == tpc = "idle" /\ line = <<>> /\ tokenVec = <<>>

NextTok == Tokenize

(***************************************************************************)
(* RenderableWrappedText::rows (src/src/app/crew-repl.cpp): the wrapped    *)
(* rows of an entry, kept with the width they were computed for.           *)
(***************************************************************************)
WrappedEntries == 1..NumWrapped
WrappedContents == {<<97, 98>>, <<97, NL, 98>>, <<TAB>>}

\* std::optional<int32_t>
Nullopt == [has |-> FALSE, value |-> 0]
Some(v) == [has |-> TRUE, value |-> v]

\* mutation of rowsStale: the rows are computed on the first call only
rowsStale_firstOnly(e, cols) == ~m_cols[e].has

\* `m_cols != cols`: an empty optional differs from every width
rowsStale(e, cols) == m_cols[e] # Some(cols)

\* RenderableWrappedText::rows(cols) called on entry e
rowsCall(e, cols) ==
    /\ qpc = "query"
    /\ Len(rowsLog) < MaxQueries
    /\ LET stale == rowsStale(e, cols)
           rendered == IF stale THEN toRows(m_content[e], cols) ELSE m_rendered[e]
       IN  /\ m_rendered' = [m_rendered EXCEPT ![e] = rendered]
           /\ m_cols' = [m_cols EXCEPT ![e] = IF stale THEN Some(cols) ELSE @]
           /\ toRowsCalls' = [toRowsCalls EXCEPT ![e] = IF stale THEN @ + 1 ELSE @]
           /\ rowsLog' = Append(rowsLog, [entry |-> e, cols |-> cols, returned |-> rendered])
    /\ UNCHANGED <<notCacheVars, qpc, m_content>>

RowsCall == \E e \in WrappedEntries, cols \in 1..MaxQueryWidth : rowsCall(e, cols)

\* entries as their constructor leaves them
InitCache ==
    /\ qpc = "query"
    /\ m_content \in [WrappedEntries -> WrappedContents]
    /\ m_cols = [e \in WrappedEntries |-> Nullopt]
    /\ m_rendered = [e \in WrappedEntries |-> <<>>]
    /\ toRowsCalls = [e \in WrappedEntries |-> 0]
    /\ rowsLog = <<>>

\* the entry variables while another component runs
IdleCache ==
    /\ qpc = "idle" /\ m_content = <<>> /\ m_cols = <<>> /\ m_rendered = <<>>
    /\ toRowsCalls = <<>> /\ rowsLog = <<>>

NextCache == RowsCall

(***************************************************************************)
(* Build::make (src/unnamed/part_008): the build directory is checked, the *)
(* eto command is built and run with RunMode::ExecPty.                     *)
(***************************************************************************)
\* make lines 194-196: fatal unless the build directory exists
MakeCheckDir ==
    /\ bpc = "make"
    /\ IF dirExists
       THEN bpc' = "call" /\ UNCHANGED <<pc, cerr, exitStatus>>
       ELSE fatal(<<"build dir doesn't exist">>, <<>>) /\ bpc' = "exited"
    /\ UNCHANGED <<notMakeVars, cfgVars, result, ret, pfds, outStream, errStream, outFlushed,
                   errFlushed, errReads, eintrs, kernelVars, childVars,
                   dryRun, verbose, dirExists, makeArgs, m_args>>

\* make lines 197-203: the Command of oe.eto() gets "xc", "make", "-l28", "-jN"
\* and the arguments of the caller, the build directory as current
\* directory, setDry(dryRun), setVerbose(dryRun), and run(RunMode::ExecPty)
\* is entered
MakeRun ==
    /\ bpc = "call"
    /\ m_args' = 4 + makeArgs
    /\ m_cd' = TRUE
    /\ m_dryRun' = dryRun
    /\ m_verbose' = dryRun
    /\ mode' = "ExecPty"
    /\ pc' = "run"
    /\ bpc' = "run"
    /\ UNCHANGED <<notMakeVars, m_onError, m_envOverride, result, ret, exitStatus, pfds,
                   cerr, outStream, errStream, outFlushed, errFlushed, errReads, eintrs,
                   kernelVars, childVars, dryRun, verbose, dirExists, makeArgs>>

\* make line 204: the statement after run(...) returned
MakeUnreachable ==
    /\ bpc = "run"
    /\ pc = "returned"
    /\ fatal(<<"unreachable">>, <<>>)
    /\ bpc' = "unreachable"
    /\ UNCHANGED <<notMakeVars, cfgVars, result, ret, pfds, outStream, errStream, outFlushed,
                   errFlushed, errReads, eintrs, kernelVars, childVars,
                   dryRun, verbose, dirExists, makeArgs, m_args>>

\* make is called on a Build with any flags; the Command of oe.eto() is as
\* its constructor leaves it
InitMake ==
    /\ bpc = "make"
    /\ dryRun \in BOOLEAN
    /\ verbose \in BOOLEAN
    /\ dirExists \in BOOLEAN
    /\ makeArgs \in 0..MaxMakeArgs
    /\ m_args = 0
    /\ IdleRun

\* the Build variables while another component runs
IdleMake ==
    /\ bpc = "idle" /\ dryRun = FALSE /\ verbose = FALSE /\ dirExists = FALSE
    /\ makeArgs = 0 /\ m_args = 0

NextMake ==
    \/ MakeCheckDir
    \/ MakeRun
    \/ RunEnter
    \/ ExecPty
    \/ MakeUnreachable

\* the components added to the five above, while another component runs
IdleAux == IdleTok /\ IdleCache /\ IdleMake

(***************************************************************************)
(* The specifications.                                                     *)
(***************************************************************************)
\* Command::run with one child
InitSpecRun == InitRun /\ IdleKey /\ IdleWrap /\ IdleVm /\ IdleRepl /\ IdleAux
SpecRun == InitSpecRun /\ [][NextRun]_vars

\* Command::run with one child and failing system calls
InitSpecRunFaults == InitRun /\ IdleKey /\ IdleWrap /\ IdleVm /\ IdleRepl /\ IdleAux
SpecRunFaults == InitSpecRunFaults /\ [][NextRunFaults]_vars

\* run(RunMode::Block) with both processes scheduled fairly
InitSpecRunPipeFair == InitRunPipe /\ IdleKey /\ IdleWrap /\ IdleVm /\ IdleRepl /\ IdleAux
SpecRunPipeFair == InitSpecRunPipeFair /\ [][NextRunPipe]_vars /\ FairRunPipe

\* readKey called in a loop
InitSpecKey == InitKey /\ IdleRun /\ IdleWrap /\ IdleVm /\ IdleRepl /\ IdleAux
SpecKey == InitSpecKey /\ [][NextKey]_vars

\* toRows applied to bounded contents and widths
InitSpecWrap == InitWrap /\ IdleRun /\ IdleKey /\ IdleVm /\ IdleRepl /\ IdleAux
SpecWrap == InitSpecWrap /\ [][NextWrap]_vars

\* registrations on a Vm followed by the cooked REPL
InitSpecVm == InitVm /\ IdleRun /\ IdleKey /\ IdleWrap /\ IdleRepl /\ IdleAux
SpecVm == InitSpecVm /\ [][NextVm]_vars

\* rawRepl from its start to the end of the process
InitSpecRepl == InitRepl /\ IdleRun /\ IdleKey /\ IdleWrap /\ IdleVm /\ IdleAux
SpecRepl == InitSpecRepl /\ [][NextRepl]_vars

\* rawRepl with the keyboard's control keys as its only input
InitSpecReplControl == InitRepl /\ IdleRun /\ IdleKey /\ IdleWrap /\ IdleVm /\ IdleAux
SpecReplControl == InitSpecReplControl /\ [][NextReplControl]_vars

\* tokenize applied to bounded lines
InitSpecTok ==
    InitTok /\ IdleRun /\ IdleKey /\ IdleWrap /\ IdleVm /\ IdleRepl /\ IdleCache /\ IdleMake
SpecTok == InitSpecTok /\ [][NextTok]_vars

\* rows() queried on a few entries at bounded widths
InitSpecCache ==
    InitCache /\ IdleRun /\ IdleKey /\ IdleWrap /\ IdleVm /\ IdleRepl /\ IdleTok /\ IdleMake
SpecCache == InitSpecCache /\ [][NextCache]_vars

\* Build::make called with any flags
InitSpecMake ==
    InitMake /\ IdleKey /\ IdleWrap /\ IdleVm /\ IdleRepl /\ IdleTok /\ IdleCache
SpecMake == InitSpecMake /\ [][NextMake]_vars

(***************************************************************************)
(* Claims about Command::run, checked under SpecRun.                       *)
(***************************************************************************)

\* C1: in PipeCapture (Block) mode, when run returns, the out sink holds
\* exactly the bytes the child wrote to its standard output and the err sink
\* exactly the bytes it wrote to its standard error, in order, also when reads
\* were interrupted and retried, and the value returned is the child's exit code.
C1_PipeCaptureDelivers ==
    (mode = "Block" /\ ~m_dryRun /\ pc = "returned") =>
        /\ outStream = sOut
        /\ errStream = sErr
        /\ childStatus.kind = "exited"
        /\ ret = childStatus.code

\* C1 witness: a Block run that returned 3 after the child wrote to both
\* streams and a read was interrupted
C1_Witness ==
    /\ mode = "Block" /\ pc = "returned" /\ ret = 3
    /\ Len(sOut) >= 1 /\ Len(sErr) >= 2 /\ eintrs >= 1

\* C2: once the child has been reaped after exiting with code c, run ends by
\* policy: c # 0 under Fatal terminates the caller with status 1 and run does
\* not return; otherwise (c = 0, or the Return policy) run returns c and the
\* caller keeps running.
C2_ErrorPolicy ==
    /\ (child = "reaped" /\ childStatus.kind = "exited" /\ pc # "policy") =>
          IF childStatus.code # 0 /\ m_onError = "Fatal"
          THEN pc = "exited" /\ exitStatus = 1 /\ ret = NoInt
          ELSE pc = "returned" /\ ret = childStatus.code /\ exitStatus = NoInt
    /\ (pc = "returned" /\ ~m_dryRun) =>
          child = "reaped" /\ (m_onError = "Fatal" => ret = 0)

\* C2 witness: a nonzero exit code returned to a caller that keeps running
C2_Witness ==
    /\ pc = "returned" /\ ret = 3 /\ m_onError = "Return" /\ exitStatus = NoInt

\* C3: with dry_run set, run returns 0 in every mode; no pipe, pty or child is
\* created, the sinks are neither written nor flushed, and the only effect is
\* the description on the diagnostic stream, whose first line starts "DRY:".
C3_DryRun ==
    m_dryRun =>
        /\ pc \in {"run", "returned"}
        /\ pfds = {} /\ child = "none" /\ exitStatus = NoInt
        /\ outStream = <<>> /\ errStream = <<>>
        /\ outFlushed = 0 /\ errFlushed = 0
        /\ outPipe = <<>> /\ errPipe = <<>> /\ pty = <<>>
        /\ pc = "returned" =>
              /\ ret = 0
              /\ Len(cerr) >= 1
              /\ cerr[1].prefix = "DRY: "
              /\ \A i \in 2..Len(cerr) : cerr[i].prefix = "\t- "

\* C3 witness: a dry run with verbose set as well has returned
C3_Witness ==
    m_dryRun /\ m_verbose /\ pc = "returned" /\ mode = "BlockPty" /\ Len(cerr) = 3

\* C4: in Block and BlockPty mode run returns only with the child reaped, and
\* the child is reaped only after the drains have finished (each sink drained
\* to its end and flushed).
C4_ReapedBeforeReturn ==
    /\ (pc = "returned" /\ ~m_dryRun) => child = "reaped"
    /\ child = "reaped" =>
          /\ pc \in {"policy", "returned", "exited"}
          /\ outFlushed = 1
          /\ mode = "Block" => (errFlushed = 1 /\ outPipe = <<>> /\ errPipe = <<>>)
          /\ mode = "BlockPty" => pty = <<>>

\* C4 witness: a Block run has returned with its child reaped
C4_Witness ==
    /\ pc = "returned" /\ mode = "Block" /\ child = "reaped" /\ Len(outStream) >= 1

\* the stdout pipe is at end of file: nothing buffered and no writer left
OutPipeAtEof == outPipe = <<>> /\ ~WriteEndOpen("outEntrance")

\* C5: in Block mode no read is issued on the stderr pipe, and nothing is
\* written to the err sink, until the stdout pipe has returned end of file and
\* the out sink has been flushed; no write to the out sink follows a read of
\* the stderr pipe.
C5_OutBeforeErr ==
    /\ []((errReads > 0 \/ errStream # <<>> \/ errFlushed > 0) =>
             (OutPipeAtEof /\ outFlushed = 1 /\ outStream = sOut))
    /\ [][(errReads > 0 \/ errStream # <<>>) =>
             (outStream' = outStream /\ outFlushed' = outFlushed)]_vars

\* C5 witness: both sinks have received data
C5_Witness ==
    mode = "Block" /\ outStream # <<>> /\ errStream # <<>>

\* the child is suspended in a write to the full stderr pipe while the parent
\* is suspended in a read of the empty stdout pipe, whose write end the child
\* still holds
PipeDeadlock ==
    /\ mode = "Block" /\ pc = "pumpOut"
    /\ outPipe = <<>> /\ WriteEndOpen("outEntrance")
    /\ child = "blocked"
    /\ targetOf(childPending.fd) = "errPipe"
    /\ Len(errPipe) = PipeCap

\* C6: PipeCapture can deadlock: once the child is blocked writing the full
\* stderr pipe while the parent is blocked reading the empty stdout pipe,
\* neither process ever takes another step that changes this, so run never
\* returns.
C6_DeadlockPersists ==
    [][PipeDeadlock => (PipeDeadlock' /\ errPipe' = errPipe /\ sAll' = sAll
                         /\ outStream' = outStream /\ pc' = pc)]_vars

\* C6 witness: the deadlocked state is reached
C6_Witness == PipeDeadlock

\* the bytes as the pty delivers them: each newline as carriage return, newline
RECURSIVE CrLf(_)
CrLf(s) ==
    IF s = <<>> THEN <<>>
    ELSE (IF Head(s) = 10 THEN <<13, 10>> ELSE <<Head(s)>>) \o CrLf(Tail(s))

\* C14: in BlockPty mode everything the child wrote to its standard output
\* and standard error is in the out sink, in the order written (a newline
\* arriving as carriage return, newline), once draining has ended; the err
\* sink receives nothing; the EIO of the pty master ends draining without a
\* fatal diagnostic, and run then returns the exit code of the reaped child.
C14_PtyCaptureDelivers ==
    (mode = "BlockPty" /\ ~m_dryRun) =>
        /\ errStream = <<>> /\ errFlushed = 0
        /\ \A i \in 1..Len(cerr) : cerr[i].body # <<"read() failed: ">>
        /\ pc \in {"closeMaster", "wait", "policy", "returned"} =>
              (outStream = CrLf(sAll) /\ outFlushed = 1 /\ ~ChildAlive)
        /\ pc = "returned" =>
              /\ child = "reaped"
              /\ childStatus.kind = "exited"
              /\ ret = childStatus.code

\* C14 witness: a BlockPty run returned 3 after the child wrote to both of
\* its streams, a newline among the bytes
C14_Witness ==
    /\ mode = "BlockPty" /\ pc = "returned" /\ ret = 3
    /\ sOut = <<97>> /\ sErr = <<10>> /\ sAll = <<10, 97>>
    /\ outStream = <<13, 10, 97>>

\* C15: in ExecPty mode, not a dry run, control never returns to the caller
\* of run: the image of the calling process is replaced by the target
\* program, or the process ends through fatal with a diagnostic and status 1.
C15_ExecReplaceNeverReturns ==
    (mode = "ExecPty" /\ ~m_dryRun /\ pc \notin {"run", "execPty"}) =>
        \/ pc = "replaced"
        \/ /\ pc = "exited"
           /\ exitStatus = 1
           /\ cerr # <<>>
           /\ cerr[Len(cerr)].prefix = ""

\* the child ended in fatal() inside replaceProcessImage
ChildExecFailed == \E i \in 1..Len(sAll) : sAll[i] = DiagByte

\* C16: an exec failure in Block or BlockPty mode is fatal to the whole
\* process: run does not return to its caller, whichever error policy is set.
C16_ExecFailureEndsCaller ==
    (mode \in {"Block", "BlockPty"} /\ ChildExecFailed) => pc # "returned"

\* C17: when the reaped child did not end by a normal exit, run returns no
\* value: under either error policy the calling process ends with the
\* diagnostic "child failed to exit normally" and status 1.
C17_AbnormalChildIsFatal ==
    (child = "reaped" /\ childStatus.kind # "exited") =>
        /\ pc = "exited"
        /\ exitStatus = 1
        /\ ret = NoInt
        /\ result = NoInt
        /\ cerr[Len(cerr)] = Line("", <<"child failed to exit normally">>)

\* C17 witness: under the Return policy, a child killed after it wrote a
\* byte has been reaped
C17_Witness ==
    /\ child = "reaped" /\ childStatus.kind = "signaled"
    /\ m_onError = "Return" /\ pc = "exited" /\ Len(sAll) >= 1

\* whether a diagnostic line contains the piece
Contains(body, piece) == \E i \in 1..Len(body) : body[i] = piece

\* C18: every fatal diagnostic contains the details passed to it: the line
\* written when the Fatal policy ends the caller contains the command line
\* and the exit code of the child, and the lines for exec and read failures
\* contain the text of the OS error.
C18_DiagnosticHasDetails ==
    \A i \in 1..Len(cerr) :
        cerr[i].prefix = "" =>
            /\ cerr[i].body[1] = "command \"" =>
                  (Contains(cerr[i].body, "toString")
                   /\ Contains(cerr[i].body, ToString(result)))
            /\ cerr[i].body[1] \in {"execvp failed: ", "read() failed: "} =>
                  Contains(cerr[i].body, "strerror")

\* C27: in Block mode the target program never runs with a standard output
\* or standard error that was not redirected onto the pipes: a dup2 that
\* fails with an error other than EINTR ends the child before the exec.
C27_NoExecUnredirected ==
    (mode = "Block" /\ child \in {"running", "blocked"}) =>
        (cstdout = "outPipe" /\ cstderr = "errPipe")

\* the pipe that the parent is draining at pc has reached its end of file
DrainedAtEof ==
    IF pc = "pumpOut" THEN OutPipeAtEof
    ELSE errPipe = <<>> /\ ~WriteEndOpen("errEntrance")

\* C28: in Block mode a drain ends only on a zero-length read, that is with
\* the pipe empty and no write end left open; a failing read either is an
\* interrupted one, after which the drain goes on with the pipe and the
\* sinks untouched, or ends the process with a diagnostic line.
C28_DrainEndsOnlyAtEof ==
    [][(mode = "Block" /\ pc \in {"pumpOut", "pumpErr"}) =>
          /\ pc' \notin {pc, "exited"} => DrainedAtEof
          /\ pc' = "exited" => (exitStatus' = 1 /\ Len(cerr') = Len(cerr) + 1)
          /\ eintrs' # eintrs =>
                (pc' = pc /\ UNCHANGED <<outPipe, errPipe, outStream, errStream>>)]_vars

(***************************************************************************)
(* Claims about readKey, checked under SpecKey.                            *)
(***************************************************************************)
\* the decoding table of the specification: bytes after ESC -> key
KeyTable ==
    (<<91, 65>> :> ArrowUp) @@ (<<91, 66>> :> ArrowDown) @@
    (<<91, 67>> :> ArrowRight) @@ (<<91, 68>> :> ArrowLeft) @@
    (<<91, 72>> :> HomeKey) @@ (<<79, 72>> :> HomeKey) @@
    (<<91, 70>> :> EndKey) @@ (<<79, 70>> :> EndKey) @@
    (<<91, 49, 126>> :> HomeKey) @@ (<<91, 55, 126>> :> HomeKey) @@
    (<<91, 51, 126>> :> DeleteKey) @@
    (<<91, 52, 126>> :> EndKey) @@ (<<91, 56, 126>> :> EndKey) @@
    (<<91, 53, 126>> :> PageUp) @@ (<<91, 54, 126>> :> PageDown)

\* C8: when readKey returns after reading ESC, its result is the table's key
\* for the bytes it read after the ESC, and a bare Escape for every other
\* continuation: no byte available, an incomplete or an unlisted sequence.
C8_DecodeTable ==
    (kpc = "done" /\ c = ESC) =>
        key = (IF seq \in DOMAIN KeyTable THEN KeyTable[seq] ELSE ESC)

\* C8 witness: ESC [ 5 ~ has been decoded to PageUp
C8_Witness ==
    kpc = "done" /\ c = ESC /\ seq = <<91, 53, 126>> /\ key = PageUp

\* C26: the named keys ArrowLeft, ArrowRight, ArrowUp, ArrowDown, DeleteKey,
\* HomeKey, EndKey, PageUp, PageDown have the codes 1000..1008 in that order
\* and Backspace is 127; every value readKey returns is one of these codes or
\* a value in 0..255, and when the byte read was not ESC the value returned
\* is that byte, also for a byte in 128..255.
C26_KeyCodeRange ==
    /\ <<ArrowLeft, ArrowRight, ArrowUp, ArrowDown, DeleteKey, HomeKey, EndKey,
         PageUp, PageDown>> = [i \in 1..9 |-> 999 + i]
    /\ Backspace = 127
    /\ kpc = "done" =>
          /\ key \in (0..255) \cup (1000..1008)
          /\ c # ESC => key = c

(***************************************************************************)
(* Claims about toRows, checked under SpecWrap.                            *)
(***************************************************************************)
\* the rows concatenated in order
RECURSIVE Concat(_)
Concat(rs) == IF rs = <<>> THEN <<>> ELSE Head(rs) \o Concat(Tail(rs))

\* the text with each tab replaced by four spaces
RECURSIVE ExpandTabs(_)
ExpandTabs(t) ==
    IF t = <<>> THEN <<>>
    ELSE (IF Head(t) = TAB THEN <<SPACE, SPACE, SPACE, SPACE>> ELSE <<Head(t)>>)
         \o ExpandTabs(Tail(t))

\* the text without its newline characters
RECURSIVE DropNewlines(_)
DropNewlines(t) ==
    IF t = <<>> THEN <<>>
    ELSE (IF Head(t) = NL THEN <<>> ELSE <<Head(t)>>) \o DropNewlines(Tail(t))

\* C9 as stated: the rows of wrap, concatenated in order, are the content with
\* each tab replaced by four spaces and nothing else added, dropped or
\* reordered.
C9_ConcatIsContent ==
    wpc = "done" => Concat(rows) = ExpandTabs(content)

\* C9 as amended: the rows of wrap, concatenated in order, are the content
\* with each tab replaced by four spaces and each newline removed, nothing
\* else added, dropped or reordered.
C9_ConcatIsContentSansNewlines ==
    wpc = "done" => Concat(rows) = ExpandTabs(DropNewlines(content))

\* C9 witness: a content with a tab, a newline and a wrapped row
C9_Witness ==
    /\ wpc = "done" /\ content = <<97, NL, 98, TAB>> /\ width = 5
    /\ rows = <<<<97>>, <<98>>, <<SPACE, SPACE, SPACE, SPACE>>>>

\* the expansion of one tab
FourSpaces == <<SPACE, SPACE, SPACE, SPACE>>

\* the content is a run of plain characters shorter than the width, followed
\* by one tab
PlainThenTab ==
    /\ content # <<>>
    /\ content[Len(content)] = TAB
    /\ \A i \in 1..(Len(content) - 1) : content[i] \notin {TAB, NL}
    /\ Len(content) - 1 < width

\* C29: a tab becomes exactly four spaces, and a row break is put before them
\* exactly when the current row length plus 4 is greater than the width; a
\* tab whose four spaces end exactly at the width stays on the current row.
\* Stated for a row of plain characters followed by a tab.
C29_TabBreaksOnlyOnOverflow ==
    (wpc = "done" /\ PlainThenTab) =>
        LET plain == Take(content, Len(content) - 1)
        IN  rows = IF Len(plain) + 4 > width
                   THEN <<plain, FourSpaces>>
                   ELSE <<plain \o FourSpaces>>

\* the segments of t between its newlines, the last one included
RECURSIVE SplitLines(_, _)
SplitLines(t, seg) ==
    IF t = <<>> THEN <<seg>>
    ELSE IF Head(t) = NL THEN <<seg>> \o SplitLines(Tail(t), <<>>)
    ELSE SplitLines(Tail(t), Append(seg, Head(t)))

\* the segments of t with an empty last segment left out
LinesOf(t) ==
    LET segs == SplitLines(t, <<>>)
    IN  IF segs[Len(segs)] = <<>> THEN Take(segs, Len(segs) - 1) ELSE segs

\* the content has no tab and each of its lines is shorter than the width
ShortPlainLines ==
    /\ \A i \in 1..Len(content) : content[i] # TAB
    /\ \A i \in 1..Len(SplitLines(content, <<>>)) :
          Len(SplitLines(content, <<>>)[i]) < width

\* C30: for a content without tabs whose lines are all shorter than the
\* width, the rows are the content split at its newlines: no row holds a
\* newline, an empty line gives an empty row, and an empty last segment gives
\* no row, so the empty content has no rows.
C30_SplitAtNewlines ==
    (wpc = "done" /\ ShortPlainLines) =>
        /\ rows = LinesOf(content)
        /\ \A i \in 1..Len(rows) : \A j \in 1..Len(rows[i]) : rows[i][j] # NL
        /\ content = <<>> => rows = <<>>

\* C30 witness: a line, an empty line and an empty last segment
C30_Witness ==
    /\ wpc = "done" /\ content = <<97, NL, NL>> /\ width = 2
    /\ rows = <<<<97>>, <<>>>>

(***************************************************************************)
(* Claims about the Vm, checked under SpecVm.                              *)
(***************************************************************************)
\* C10: addCommand with a parameter id that addParam has not registered ends
\* the process with the diagnostic "invalid param id" and registers no
\* command; no other call ends the process with a configuration error, so
\* after successful registrations parseTokens and the validation of the
\* arguments never do, and no registered command holds a null parameter.
C10_UnknownParamFatalAtRegistration ==
    /\ [](/\ (lastCall.op = "addCommand"
              /\ \E i \in 1..Len(lastCall.paramIds) :
                    lastCall.paramIds[i] \notin DOMAIN m_params)
             => (vmStatus = "exited" /\ vmCerr = <<"invalid param id">>)
          /\ vmStatus = "exited" => lastCall.op = "addCommand"
          /\ \A id \in DOMAIN m_commands :
               \A i \in 1..Len(m_commands[id]) : m_commands[id][i] # NULL
          /\ \A i \in 1..Len(printed) :
               printed[i].err \notin {"fatal", "out_of_range"})
    /\ [][vmStatus' = "exited" => m_commands' = m_commands]_vars

\* C10 witness: after successful registrations, addCommand with an
\* unregistered parameter id has ended the process
C10_Witness ==
    /\ vmStatus = "exited"
    /\ lastCall.op = "addCommand"
    /\ lastCall.paramIds = <<"string", "file">>
    /\ DOMAIN m_params = {"string"}
    /\ DOMAIN m_commands = {"print"}
    /\ lastCall.id = "hi"

\* the larger of two numbers, written out
Larger(a, b) == IF a >= b THEN a ELSE b

\* C11: parseTokens of an empty token list returns none; of a non-empty list
\* it returns a result whose command name is the first token, whose
\* arguments are the remaining tokens in their order, and whose command is
\* the registered definition of that name, or absent, without any error,
\* when no command of that name is registered.
C11_ParseShape ==
    lastCall.op = "parseTokens" =>
        IF lastCall.tokens = <<>>
        THEN ~parseResult.present /\ vmStatus = "printed" /\ printed = <<>>
        ELSE /\ parseResult.present
             /\ parseResult.commandName = lastCall.tokens[1]
             /\ parseResult.args =
                   [i \in 1..(Len(lastCall.tokens) - 1) |-> lastCall.tokens[i + 1]]
             /\ parseResult.found = (lastCall.tokens[1] \in DOMAIN m_commands)
             /\ parseResult.found =>
                   parseResult.command = m_commands[lastCall.tokens[1]]
             /\ ~parseResult.found =>
                   (vmStatus = "printed" /\ vmCerr = <<>>)

\* C11 witness: a line naming a registered command with two arguments has
\* been parsed
C11_Witness ==
    /\ lastCall.op = "parseTokens"
    /\ lastCall.tokens = <<"hi", "", "hi">>
    /\ parseResult.found
    /\ parseResult.args = <<"", "hi">>
    /\ Len(parseResult.command) = 1

\* C12: the effective argument count of a parse result is the larger of the
\* number of argument tokens and the number of parameters of the matched
\* command, and the number of argument tokens when no command matched; a
\* line printed to its end has that many argument cells.
C12_EffectiveArgCount ==
    (lastCall.op = "parseTokens" /\ parseResult.present) =>
        /\ numArgs(parseResult) =
              IF parseResult.found
              THEN Larger(Len(parseResult.args), Len(parseResult.command))
              ELSE Len(parseResult.args)
        /\ vmStatus = "printed" =>
              Len(printed) =
                 IF parseResult.found
                 THEN Larger(Len(parseResult.args), Len(parseResult.command))
                 ELSE Len(parseResult.args)

\* C12 witness: a command declaring two parameters was given no argument,
\* and two cells were printed
C12_Witness ==
    /\ lastCall.op = "parseTokens" /\ vmStatus = "printed"
    /\ parseResult.found
    /\ parseResult.args = <<>>
    /\ Len(parseResult.command) = 2
    /\ Len(printed) = 2

\* C13: for every index i below the effective argument count, argument i is
\* reported valid exactly when a token was supplied at i, the matched command
\* declares a parameter at i, and the predicate of that parameter accepts the
\* token; the predicate is not evaluated for an index without a token or
\* without a declared parameter.
C13_ValidIffTokenParamPredicate ==
    (lastCall.op = "parseTokens" /\ parseResult.present) =>
        /\ Len(printed) = numArgs(parseResult)
        /\ \A i \in 1..Len(printed) :
             LET haveToken == i <= Len(parseResult.args)
                 haveParam == parseResult.found /\ i <= Len(parseResult.command)
             IN  /\ printed[i].err = "none"
                 /\ printed[i].isValid =
                      (/\ haveToken
                       /\ haveParam
                       /\ validate(vmHeap[parseResult.command[i]].validate,
                                   parseResult.args[i]))
                 /\ printed[i].evaluated => (haveToken /\ haveParam)

\* the VmParam objects named id that are alive
LiveParams(id) == {a \in (1..Len(vmHeap)) \ vmFreed : vmHeap[a].type = id}

\* C25: after addParam(n, p) on a name that may be registered already, the
\* registry holds exactly one VmParam named n and its predicate is p, the
\* other names keep their VmParam, and the call produces no diagnostic and
\* does not end the process; addCommand stores for each parameter name the
\* VmParam registered under it at that moment, so a command registered after
\* the replacement validates its argument with the replacing predicate.
C25_ReRegistrationReplaces ==
    /\ [](lastCall.op = "addParam" =>
            /\ lastCall.id \in DOMAIN m_params
            /\ LiveParams(lastCall.id) = {m_params[lastCall.id]}
            /\ vmHeap[m_params[lastCall.id]].validate = lastCall.validator
            /\ vmStatus = "registering"
            /\ vmCerr = <<>>)
    /\ [][lastCall'.op = "addParam" =>
            /\ DOMAIN m_params' = DOMAIN m_params \cup {lastCall'.id}
            /\ \A x \in DOMAIN m_params \ {lastCall'.id} : m_params'[x] = m_params[x]
            /\ UNCHANGED <<m_commands, vmCerr, vmStatus>>]_vars
    /\ [][(lastCall'.op = "addCommand" /\ vmStatus' = "registering"
           /\ lastCall'.id \notin DOMAIN m_commands) =>
            m_commands'[lastCall'.id] =
               [i \in 1..Len(lastCall'.paramIds) |-> m_params[lastCall'.paramIds[i]]]]_vars
    /\ [](\A i \in 1..Len(printed) :
            (/\ parseResult.found
             /\ i <= Len(parseResult.command)
             /\ parseResult.command[i] \notin vmFreed)
            => LET n == vmHeap[parseResult.command[i]].type
               IN  /\ m_params[n] = parseResult.command[i]
                   /\ printed[i].err = "none"
                   /\ printed[i].isValid =
                        (/\ i <= Len(parseResult.args)
                         /\ validate(vmHeap[m_params[n]].validate,
                                     parseResult.args[i])))

\* C25 witness: "string" was registered with the non-empty predicate and then
\* with the file predicate, "print" was registered afterwards, and the line
\* "print x" is reported invalid, as the file predicate says
C25_Witness ==
    /\ vmStatus = "printed"
    /\ vmHeap = <<[type |-> "string", validate |-> "string"],
                  [type |-> "string", validate |-> "file"]>>
    /\ vmFreed = {1}
    /\ parseResult.found /\ parseResult.command = <<2>>
    /\ parseResult.args = <<"x">>
    /\ printed[1].isValid = FALSE

(***************************************************************************)
(* Claims about raw mode, checked under SpecRepl.                          *)
(***************************************************************************)
\* C7: once enterRawMode has succeeded, the process never ends with the
\* terminal left in raw mode: whenever the process has ended, the terminal
\* has its original settings.
C7_RestoredOnEveryExit ==
    (rpc = "ended" /\ atexitFns # <<>>) => termios = "orig"

(***************************************************************************)
(* Claims about the Editor's keys, checked under SpecRepl.                 *)
(***************************************************************************)
\* processKeypress has handled a key other than ctrl-q in this step
KeyHandled == rpc = "key" /\ rpc' = "refresh"

\* C19: on Enter the input buffer, also when empty, is appended as one new
\* entry at the end of the scrollback, the buffer becomes empty and cursor x
\* becomes 0; the earlier entries keep their content and order and the
\* window size is unchanged.
C19_EnterAppendsEntry ==
    [][(KeyHandled /\ pressed' = CR) =>
          /\ entries' = Append(entries, currentCommand)
          /\ currentCommand' = <<>>
          /\ cursor'.x = 0
          /\ winSize' = winSize]_vars

\* C19 witness: Enter on a typed buffer and then Enter on the empty buffer
C19_Witness ==
    /\ rpc = "refresh" /\ pressed = CR
    /\ entries = <<<<97>>, <<>>>>
    /\ currentCommand = <<>> /\ cursor.x = 0

\* C20: a printable byte is appended to the input buffer and cursor x grows
\* by one; Backspace removes the last character of a non-empty buffer and
\* cursor x shrinks by one, and changes neither on an empty buffer; so a
\* printable byte followed by Backspace restores buffer and cursor x.
C20_TypeThenBackspace ==
    /\ [][KeyHandled =>
            /\ pressed' = 97 =>
                  /\ currentCommand' = Append(currentCommand, 97)
                  /\ cursor'.x = cursor.x + 1
            /\ pressed' = Backspace =>
                  IF currentCommand # <<>>
                  THEN /\ currentCommand' =
                             [i \in 1..(Len(currentCommand) - 1) |-> currentCommand[i]]
                       /\ cursor'.x = cursor.x - 1
                  ELSE /\ currentCommand' = currentCommand
                       /\ cursor'.x = cursor.x]_vars
    /\ [](rpc = "key" =>
            LET typed == keyEffect(editor, 97)
                undone == keyEffect(typed, Backspace)
            IN  /\ typed.currentCommand # currentCommand
                /\ undone.currentCommand = currentCommand
                /\ undone.cursor.x = cursor.x)

\* C20 witness: after two printable bytes, Backspace has removed the second
C20_Witness ==
    /\ rpc = "refresh" /\ pressed = Backspace
    /\ currentCommand = <<97>> /\ cursor.x = 1

\* the coordinate that the arrow key k moves stays inside the window
InWindow(cur, k) ==
    IF k \in {ArrowLeft, ArrowRight}
    THEN 0 <= cur.x /\ cur.x <= winSize.x - 1
    ELSE 0 <= cur.y /\ cur.y <= winSize.y - 1

\* the cell one step from cur in the direction of the arrow key k
Neighbour(cur, k) ==
    CASE k = ArrowLeft -> [cur EXCEPT !.x = @ - 1]
      [] k = ArrowRight -> [cur EXCEPT !.x = @ + 1]
      [] k = ArrowUp -> [cur EXCEPT !.y = @ - 1]
      [] k = ArrowDown -> [cur EXCEPT !.y = @ + 1]

\* C21: an arrow key moves the cursor to the neighbouring cell in its
\* direction when that cell is inside the window and leaves it where it is
\* otherwise; PageUp and PageDown, from a cursor inside the window, end at
\* y = 0 and y = rows-1 with x kept; none of the six keys changes the input
\* buffer or the scrollback.
C21_ArrowsStayInWindow ==
    [][KeyHandled =>
         /\ pressed' \in {ArrowLeft, ArrowRight, ArrowUp, ArrowDown} =>
               /\ cursor' = IF InWindow(Neighbour(cursor, pressed'), pressed')
                            THEN Neighbour(cursor, pressed')
                            ELSE cursor
               /\ UNCHANGED <<currentCommand, entries>>
         /\ pressed' \in {PageUp, PageDown} =>
               /\ InWindow(cursor, pressed') =>
                     cursor' = [cursor EXCEPT
                                  !.y = IF pressed' = PageUp THEN 0
                                        ELSE winSize.y - 1]
               /\ UNCHANGED <<currentCommand, entries>>]_vars

\* the keys of C22: Escape and the control codes 0..31 other than Enter, the
\* quit key and the Backspace control code
UnrecognizedKeys == {ESC} \cup ((0..31) \ {CR, ctrlKey(113), ctrlKey(104)})

\* C22: a key that is Escape or a control code other than Enter, the quit key
\* and Backspace is a no-op: the input buffer, the cursor and the scrollback
\* are unchanged by it.
C22_UnrecognizedIsNoOp ==
    [][(KeyHandled /\ pressed' \in UnrecognizedKeys) =>
          UNCHANGED <<currentCommand, cursor, entries>>]_vars

\* C23: on the quit key the editor writes the clear-screen and the cursor-home
\* sequence, then the original terminal settings are restored, then the
\* process exits with status 0, in that order and with no key read or screen
\* refresh in between.
C23_QuitSequence ==
    [][(rpc = "key" /\ pressed' = ctrlKey(113) /\ rpc' # "key") =>
          /\ ttyLog' = <<"ESC[2J", "ESC[H", "tcsetattr orig", "exit">>
          /\ termios' = "orig"
          /\ procExit' = "0"
          /\ rpc' = "ended"]_vars

(***************************************************************************)
(* Claims about the Editor's rendering, checked under SpecRepl.            *)
(***************************************************************************)
\* s is an initial part of t
IsPrefix(s, t) == Len(s) <= Len(t) /\ \A i \in 1..Len(s) : s[i] = t[i]

\* C24: after a screen refresh, the rows drawn for every entry of the
\* scrollback that the render visited are the rows of wrap(entry content,
\* columns) for the cached window size, in order from the first (the last
\* visited entry may be cut short where the screen's lines run out).
C24_WrappedToColumns ==
    rpc = "key" =>
        \A i \in 1..Len(drawn) : IsPrefix(drawn[i], toRows(entries[i], winSize.x))

(***************************************************************************)
(* Claims about tokenize, checked under SpecTok.                           *)
(***************************************************************************)
\* C31: tokenize never yields an empty token, for every line, also one with
\* leading or consecutive spaces; so neither the command name nor an argument
\* that cookedRepl hands to parseTokens is empty.
C31_NoEmptyToken ==
    tpc = "done" => \A i \in 1..Len(tokenVec) : tokenVec[i] # <<>>

\* the wrapped rows of all entries, oldest entry first, at the width the
\* render asks for
RECURSIVE WrappedRows(_, _)
WrappedRows(ents, numLines) ==
    IF ents = <<>> THEN <<>>
    ELSE rowsOf(Head(ents), renderWidth(numLines)) \o WrappedRows(Tail(ents), numLines)

EarlierQueries(i) == {j \in 1..(i - 1) : rowsLog[j].entry = rowsLog[i].entry}

\* query i is the first on its entry, or asks another width than the last one
WidthChanged(i) ==
    LET p == EarlierQueries(i)
    IN  \/ p = {}
        \/ rowsLog[CHOOSE j \in p : \A k \in p : k <= j].cols # rowsLog[i].cols

\* C33: every call of rows on an entry returns the wrap of the entry's content
\* at the width asked, and toRows has been called for an entry exactly once
\* per query on that entry that was its first or asked a width other than the
\* previous query on it (so a query on one entry computes nothing for another)
C33_RowsCacheRefinesWrap ==
    qpc = "query" =>
        /\ \A i \in 1..Len(rowsLog) :
               rowsLog[i].returned = toRows(m_content[rowsLog[i].entry], rowsLog[i].cols)
        /\ \A e \in WrappedEntries :
               toRowsCalls[e] =
                   Cardinality({i \in 1..Len(rowsLog) : rowsLog[i].entry = e /\ WidthChanged(i)})

C33_Witness ==
    /\ qpc = "query"
    /\ Len(rowsLog) = 3
    /\ \A i \in 1..3 : rowsLog[i].entry = 1
    /\ rowsLog[1].cols = 1 /\ rowsLog[2].cols = 1 /\ rowsLog[3].cols = 2
    /\ rowsLog[3].returned # rowsLog[2].returned
    /\ toRowsCalls[1] = 2 /\ toRowsCalls[2] = 0

(***************************************************************************)
(* Claims about what a screen refresh may change, checked under SpecRepl.  *)
(***************************************************************************)
\* C34: a screen refresh leaves the input buffer, the cursor (x and y), the
\* window geometry and the scrollback entries unchanged, and no step taken
\* while the editor waits for or dispatches a key changes the window geometry
C34_RefreshChangesNothing ==
    [][/\ (rpc = "refresh" /\ rpc' = "key") =>
              UNCHANGED <<currentCommand, cursor, winSize, entries>>
       /\ rpc = "key" => winSize' = winSize]_vars

(***************************************************************************)
(* Claims about the descriptors run opens, checked under SpecRun.          *)
(***************************************************************************)
\* C35: while the parent drains a pipe it holds neither write end and still
\* holds the read end it drains, the stdout read end is closed before the
\* stderr drain starts, the pty master is held while it is drained, and from
\* the wait for the child on, so also when run has returned, the parent
\* holds none of the descriptors run opened
C35_NoDescriptorOutlivesRun ==
    /\ pc \in {"pumpOut", "closeOutExit", "pumpErr", "closeErrExit"} =>
           pfds \cap {"outEntrance", "errEntrance"} = {}
    /\ pc = "pumpOut" => pfds = {"outExit", "errExit"}
    /\ pc = "pumpErr" => pfds = {"errExit"}
    /\ pc = "pumpPty" => pfds = {"amaster"}
    /\ pc \in {"wait", "policy", "returned"} => pfds = {}

C35_Witness ==
    /\ pc = "returned" /\ mode = "Block" /\ ~m_dryRun
    /\ outStream # <<>> /\ errStream # <<>>
    /\ pfds = {}

(***************************************************************************)
(* Claims about the tracked cursor, checked under SpecRepl.                *)
(***************************************************************************)
\* C36: in every state of the editor in a window of at least one column and
\* at least two rows, the tracked cursor is a cell of the window:
\* 0 <= cursor.x <= columns - 1 and 0 <= cursor.y <= rows - 1
C36_CursorInWindow ==
    (rpc \in {"refresh", "key"} /\ winSize.x >= 1 /\ winSize.y >= 2) =>
        /\ 0 <= cursor.x /\ cursor.x <= winSize.x - 1
        /\ 0 <= cursor.y /\ cursor.y <= winSize.y - 1

(***************************************************************************)
(* Claims about the registry's parameter references, checked under SpecVm. *)
(***************************************************************************)
\* C37: every VmParam pointer held by a registered command points to a
\* record that has not been destroyed
C37_CommandParamsLive ==
    \A id \in DOMAIN m_commands :
        \A i \in 1..Len(m_commands[id]) : m_commands[id][i] \notin vmFreed

(***************************************************************************)
(* Claims about the length of wrapped rows, checked under SpecWrap.        *)
(***************************************************************************)
\* C38: for every content and every width > 0, every row toRows returns has
\* at most width characters
C38_RowsFitWidth ==
    (wpc = "done" /\ width > 0) => \A i \in 1..Len(rows) : Len(rows[i]) <= width

(***************************************************************************)
(* Claims about the termination of run(RunMode::Block), checked under      *)
(* SpecRunPipeFair.                                                        *)
(***************************************************************************)
\* the child is blocked writing to a full stderr pipe
ErrPipeOverfull == child = "blocked" /\ targetOf(childPending.fd) = "errPipe"

\* the child has exited (and with it the write ends it held are closed)
ChildHasExited == child \in {"zombie", "reaped"} /\ childStatus.kind = "exited"

\* both pipes are drained to the sinks, the child is reaped, and run has
\* returned or ended the process by the Fatal policy
RunPipeDone ==
    /\ outPipe = <<>> /\ errPipe = <<>>
    /\ outStream = sOut /\ errStream = sErr
    /\ child = "reaped"
    /\ childStatus.kind = "exited"
    /\ \/ pc = "returned"
       \/ pc = "exited" /\ m_onError = "Fatal" /\ result # 0

C40_UnreachableNeverExecuted == bpc # "unreachable"
====
